---- MODULE Spec2Model ----
(***************************************************************************)
(* State-machine model of the idpartners-ping-authorize Kong plugin:       *)
(* the per-instance circuit breaker, the retry loop of the sideband HTTP   *)
(* client, the provider client and the access / response orchestrators.    *)
(***************************************************************************)
EXTENDS Integers, Sequences, FiniteSets, TLC

(***************************************************************************)
(* Bounds of the model.                                                    *)
(***************************************************************************)
\* largest max_retries value a configuration of the model may carry
MaxRetriesBound == 1
\* number of times the clock may advance in one behaviour
MaxAdvances == 1
\* clock resolution: ticks per millisecond (Go durations are finer than 1 ms)
TicksPerMs == 2

(***************************************************************************)
(* Program constants.                                                      *)
(***************************************************************************)
defaultRetryAfterSec == 30
TriggerNone == 0
Trigger429 == 1
Trigger5xx == 2
TriggerTimeout == 3
\* time.Second / time.Millisecond
MsPerSec == 1000
TicksPerSec == MsPerSec * TicksPerMs

\* the requests whose two phases the model follows; the provider call of one
\* more request runs concurrently with them (variable other)
Requests == {"r1"}

\* amounts by which the clock advances between two steps of the plugin
AdvanceSteps == {TicksPerSec - 1, TicksPerSec, defaultRetryAfterSec * TicksPerSec}

(***************************************************************************)
(* strconv.Atoi on a string given as a tuple of one-character strings.     *)
(***************************************************************************)
Digits == <<"0", "1", "2", "3", "4", "5", "6", "7", "8", "9">>

IsDigit(c) == \E i \in 1..10 : Digits[i] = c

DigitVal(c) == (CHOOSE i \in 1..10 : Digits[i] = c) - 1

RECURSIVE DigitsVal(_)
DigitsVal(s) ==
    IF s = <<>> THEN 0
    ELSE 10 * DigitsVal(SubSeq(s, 1, Len(s) - 1)) + DigitVal(s[Len(s)])

\* [ok, val]: ok is FALSE where Atoi returns an error
Atoi(s) ==
    LET signed == Len(s) > 0 /\ s[1] \in {"-", "+"}
        digs   == IF signed THEN Tail(s) ELSE s
    IN  IF digs = <<>> \/ \E i \in 1..Len(digs) : ~IsDigit(digs[i])
        THEN [ok |-> FALSE, val |-> 0]
        ELSE [ok |-> TRUE,
              val |-> IF signed /\ s[1] = "-" THEN 0 - DigitsVal(digs)
                      ELSE DigitsVal(digs)]

\* values of the Retry-After header of a provider reply (<<>>: header absent)
RetryAfterValues == {<<>>, <<"1">>, <<"0">>, <<"x">>}

parseRetryAfter(val) ==
    IF val = <<>> THEN defaultRetryAfterSec
    ELSE LET a == Atoi(val)
         IN  IF ~a.ok \/ a.val <= 0 THEN defaultRetryAfterSec ELSE a.val

(***************************************************************************)
(* CircuitBreaker.  A breaker value is the struct without its mutex; every *)
(* method runs under the mutex, hence as one atomic step.                  *)
(***************************************************************************)
NewCircuitBreaker(enabled) ==
    [enabled |-> enabled, closed |-> TRUE, openedAt |-> 0,
     retryAfterSec |-> 0, triggerType |-> TriggerNone]

NoCbErr == [Trigger |-> TriggerNone, RetryAfterSec |-> 0, RemainingMs |-> 0]

\* Allow reporting the whole retry duration as the remaining time
AllowFullRemaining(b, t) ==
    IF ~b.enabled \/ b.closed THEN [ok |-> TRUE, err |-> NoCbErr, cb |-> b]
    ELSE IF t - b.openedAt >= b.retryAfterSec * TicksPerSec
         THEN [ok |-> TRUE, err |-> NoCbErr,
               cb |-> [b EXCEPT !.closed = TRUE, !.triggerType = TriggerNone]]
         ELSE [ok |-> FALSE,
               err |-> [Trigger       |-> b.triggerType,
                        RetryAfterSec |-> b.retryAfterSec,
                        RemainingMs   |-> b.retryAfterSec * MsPerSec],
               cb |-> b]

\* Allow closing the breaker only strictly after the retry duration
AllowStrictExpiry(b, t) ==
    IF ~b.enabled \/ b.closed THEN [ok |-> TRUE, err |-> NoCbErr, cb |-> b]
    ELSE IF t - b.openedAt > b.retryAfterSec * TicksPerSec
         THEN [ok |-> TRUE, err |-> NoCbErr,
               cb |-> [b EXCEPT !.closed = TRUE, !.triggerType = TriggerNone]]
         ELSE [ok |-> FALSE,
               err |-> [Trigger       |-> b.triggerType,
                        RetryAfterSec |-> b.retryAfterSec,
                        RemainingMs   |-> (b.retryAfterSec * TicksPerSec - (t - b.openedAt))
                                              \div TicksPerMs],
               cb |-> b]

\* Allow closing an expired breaker without clearing its trigger
AllowKeepsTrigger(b, t) ==
    IF ~b.enabled \/ b.closed THEN [ok |-> TRUE, err |-> NoCbErr, cb |-> b]
    ELSE IF t - b.openedAt >= b.retryAfterSec * TicksPerSec
         THEN [ok |-> TRUE, err |-> NoCbErr, cb |-> [b EXCEPT !.closed = TRUE]]
         ELSE [ok |-> FALSE,
               err |-> [Trigger       |-> b.triggerType,
                        RetryAfterSec |-> b.retryAfterSec,
                        RemainingMs   |-> (b.retryAfterSec * TicksPerSec - (t - b.openedAt))
                                              \div TicksPerMs],
               cb |-> b]

\* Allow at clock value t: [ok, err, cb] with cb the breaker after the call
Allow(b, t) ==
    IF ~b.enabled THEN [ok |-> TRUE, err |-> NoCbErr, cb |-> b]
    ELSE IF b.closed THEN [ok |-> TRUE, err |-> NoCbErr, cb |-> b]
    ELSE LET elapsed       == t - b.openedAt
             retryDuration == b.retryAfterSec * TicksPerSec
         IN  IF elapsed >= retryDuration
             THEN [ok |-> TRUE, err |-> NoCbErr,
                   cb |-> [b EXCEPT !.closed = TRUE, !.triggerType = TriggerNone]]
             ELSE [ok |-> FALSE,
                   err |-> [Trigger       |-> b.triggerType,
                            RetryAfterSec |-> b.retryAfterSec,
                            RemainingMs   |-> (retryDuration - elapsed) \div TicksPerMs],
                   cb |-> b]

\* Trip opening a breaker that is not enabled
TripWhenDisabled(b, t, trigger, retryAfterSec) ==
    [b EXCEPT !.closed = FALSE,
              !.openedAt = t,
              !.triggerType = trigger,
              !.retryAfterSec = IF retryAfterSec > 0 THEN retryAfterSec
                                ELSE defaultRetryAfterSec]

Trip(b, t, trigger, retryAfterSec) ==
    IF ~b.enabled THEN b
    ELSE [b EXCEPT !.closed = FALSE,
                   !.openedAt = t,
                   !.triggerType = trigger,
                   !.retryAfterSec = IF retryAfterSec > 0 THEN retryAfterSec
                                     ELSE defaultRetryAfterSec]

Reset(b) ==
    IF ~b.enabled THEN b
    ELSE [b EXCEPT !.closed = TRUE, !.triggerType = TriggerNone]

(***************************************************************************)
(* MCP module.  A body is a record: valid (it decodes as a JSON object),   *)
(* jsonrpc, method and id are the JSON-RPC fields ParseMCPRequest reads;   *)
(* hasResponse, response_code and state are the fields the provider client *)
(* decodes from a provider reply, with headers (the array of single-entry   *)
(* objects, each a <<name, value>> pair) and urlHost (the host of its url   *)
(* field, "" if the field is absent); text stands for the bytes of the     *)
(* body, and raw spells them out where their number matters.               *)
(***************************************************************************)
mcpMethods == {"tools/call", "tools/list", "resources/read", "resources/list",
               "prompts/get", "prompts/list", "initialize"}

IsMCPMethod(method) == method \in mcpMethods

\* the state field of a body, a json.RawMessage: its bytes (none: field absent)
NoState == <<>>

\* the id field of a body, a json.RawMessage: its bytes (none: field absent)
NoId == <<>>

MkBody(text, valid, jsonrpc, method, id, hasResponse, code, state) ==
    [text |-> text, valid |-> valid, jsonrpc |-> jsonrpc, method |-> method,
     id |-> id, hasResponse |-> hasResponse, response_code |-> code, state |-> state,
     headers |-> <<>>, urlHost |-> "", raw |-> <<>>]

\* a body with its bytes spelled out
WithRaw(body, raw) == [body EXCEPT !.raw = raw]

\* a provider reply body with a headers array and a url
WithHeaders(body, headers, urlHost) ==
    [body EXCEPT !.headers = headers, !.urlHost = urlHost]

EmptyBody == MkBody("", FALSE, "", "", NoId, FALSE, <<>>, NoState)

\* a JSON-RPC 2.0 request with the given method and the bytes of its id
RpcBodyWithId(method, id) == MkBody(method, TRUE, "2.0", method, id, FALSE, <<>>, NoState)

RpcBody(method) == RpcBodyWithId(method, <<"1">>)

NoMCP == [present |-> FALSE, Method |-> "", JsonrpcID |-> NoId]

ParseMCPRequest(body) ==
    IF body.text = "" THEN NoMCP
    ELSE IF ~body.valid THEN NoMCP
    ELSE IF body.jsonrpc # "2.0" THEN NoMCP
    ELSE IF ~IsMCPMethod(body.method) THEN NoMCP
    ELSE [present |-> TRUE, Method |-> body.method, JsonrpcID |-> body.id]

isMCPMethodRetryable(method, retryMethods) ==
    \E i \in 1..Len(retryMethods) : retryMethods[i] = method

httpStatusToJsonRPCError(statusCode) ==
    CASE statusCode = 400 -> 0 - 32600
      [] statusCode \in {401, 403} -> 0 - 32600
      [] statusCode = 404 -> 0 - 32601
      [] statusCode = 429 -> 0 - 32000
      [] statusCode = 500 -> 0 - 32603
      [] statusCode \in {502, 503} -> 0 - 32000
      [] OTHER -> IF statusCode >= 400 /\ statusCode < 500 THEN 0 - 32600
                  ELSE 0 - 32603

(***************************************************************************)
(* json.Marshal of a json.RawMessage value: the encoder compacts the bytes *)
(* (whitespace outside string literals is dropped) and escapes <, > and &. *)
(* Escaped quotes inside string literals are not modelled.                 *)
(***************************************************************************)
htmlEscape(ch) ==
    CASE ch = "<" -> <<"\\", "u", "0", "0", "3", "c">>
      [] ch = ">" -> <<"\\", "u", "0", "0", "3", "e">>
      [] ch = "&" -> <<"\\", "u", "0", "0", "2", "6">>
      [] OTHER -> <<ch>>

RECURSIVE compactFrom(_, _, _)
compactFrom(src, i, inString) ==
    IF i > Len(src) THEN <<>>
    ELSE IF ~inString /\ src[i] \in {" ", "\t", "\n", "\r"}
    THEN compactFrom(src, i + 1, inString)
    ELSE htmlEscape(src[i])
         \o compactFrom(src, i + 1, IF src[i] = "\"" THEN ~inString ELSE inString)

appendCompact(src) == compactFrom(src, 1, FALSE)

\* json.Marshal of the id field of a JsonRPCError, a json.RawMessage without
\* omitempty: null for a nil value
MarshalID(jsonrpcID) ==
    IF Len(jsonrpcID) = 0 THEN <<"n", "u", "l", "l">> ELSE appendCompact(jsonrpcID)

(***************************************************************************)
(* Client answers.  An answer body is a record: kind nil (no body), raw    *)
(* (text holds the bytes), LIMIT_EXCEEDED (sec is the N of the message) or *)
(* jsonrpc (code, message text with its number sec, and the bytes of the   *)
(* id field as json.Marshal writes them).                                  *)
(***************************************************************************)
NilBody == [kind |-> "nil", code |-> 0, sec |-> 0, text |-> "", id |-> NoId]

RawBody(text) == [kind |-> "raw", code |-> 0, sec |-> 0, text |-> text, id |-> NoId]

LimitExceededBody(remainingSec) ==
    [kind |-> "LIMIT_EXCEEDED", code |-> 0, sec |-> remainingSec,
     text |-> "The request exceeded the allowed rate limit. Please try after %d second.",
     id |-> NoId]

formatMCPDenyResponse(statusCode, message, sec, jsonrpcID) ==
    [kind |-> "jsonrpc", code |-> httpStatusToJsonRPCError(statusCode), sec |-> sec,
     text |-> message, id |-> MarshalID(jsonrpcID)]

\* header sets of an answer: Content-Type, Retry-After (0: absent) and
\* whether the provider's own header list is installed
NoHeaders == [contentType |-> "", retryAfter |-> 0, provider |-> FALSE]

JsonHeaders == [contentType |-> "application/json", retryAfter |-> 0, provider |-> FALSE]

RetryHeaders(remainingSec) ==
    [contentType |-> "application/json", retryAfter |-> remainingSec, provider |-> FALSE]

ProviderHeaders == [contentType |-> "", retryAfter |-> 0, provider |-> TRUE]

\* kong.Response.Exit(status, body, headers); status 0 stands for "no answer"
Exit(status, body, headers) == [status |-> status, body |-> body, headers |-> headers]

NoAnswer == Exit(0, NilBody, NoHeaders)

(***************************************************************************)
(* Provider replies, as doRequest returns them.                            *)
(***************************************************************************)
NoReply == [kind |-> "none", status |-> 0, retryAfter |-> <<>>, body |-> EmptyBody]

TransportFailure == [kind |-> "transport", status |-> 0, retryAfter |-> <<>>, body |-> EmptyBody]

HttpReply(status, retryAfter, body) ==
    [kind |-> "http", status |-> status, retryAfter |-> retryAfter, body |-> body]

ErrorBody == MkBody("error", TRUE, "", "", NoId, FALSE, <<>>, NoState)

GarbageBody == MkBody("garbage", FALSE, "", "", NoId, FALSE, <<>>, NoState)

AllowBody(state) == MkBody("allow", TRUE, "", "", NoId, FALSE, <<>>, state)

DenyBody(code) == MkBody("deny", TRUE, "", "", NoId, TRUE, code, NoState)

ResultBody(code) == MkBody("result", TRUE, "", "", NoId, FALSE, code, NoState)

ErrorStatuses == {413, 503}

\* a status that is neither 2xx nor an error status (a 3xx the HTTP client
\* does not follow)
UnfollowedStatuses == {304}

\* states a provider returns: a compact JSON object, and one with
\* insignificant whitespace
CompactState == <<"{", "}">>

SpacedState == <<"{", " ", "}">>

AccessBodies ==
    {AllowBody(NoState), AllowBody(CompactState), DenyBody(<<"4", "0", "3">>), GarbageBody}

PlainResultBody == ResultBody(<<"2", "0", "0">>)

ResponseBodies == {PlainResultBody, GarbageBody}

Replies(phase) ==
    {TransportFailure}
    \cup {HttpReply(429, v, ErrorBody) : v \in RetryAfterValues}
    \cup {HttpReply(s, <<>>, ErrorBody) : s \in ErrorStatuses}
    \cup {HttpReply(200, <<>>, b) :
            b \in IF phase = "access" THEN AccessBodies ELSE ResponseBodies}

\* replies to the provider call of the concurrent request, whose body is
\* never looked at
OtherReplies ==
    {TransportFailure}
    \cup {HttpReply(429, v, ErrorBody) : v \in RetryAfterValues}
    \cup {HttpReply(503, <<>>, ErrorBody), HttpReply(200, <<>>, AllowBody(NoState))}

\* replies told apart by status only, for either phase
StatusReplies == OtherReplies \cup {HttpReply(200, <<>>, PlainResultBody)}

\* access decisions of every shape: allow without and with a state (compact or not), deny
\* with a numeric and with a non-numeric response_code, and an undecodable body
DecisionBodies ==
    AccessBodies \cup {AllowBody(SpacedState), DenyBody(<<"4", "0", "1">>), DenyBody(<<"x">>)}

\* replies of every status class, with the decisions of every shape
FlowReplies(phase) ==
    {TransportFailure}
    \cup {HttpReply(s, <<>>, ErrorBody) : s \in ErrorStatuses \cup UnfollowedStatuses}
    \cup {HttpReply(200, <<>>, b) :
            b \in IF phase = "access" THEN DecisionBodies ELSE ResponseBodies}

\* replies that carry headers and a url.  The headers arrays of an allow
\* decision: none; the headers of a request echoed, Accept-Encoding among
\* them; a value list that differs, a new header and a header given under
\* two names that differ in case only
HeaderReplies(phase) ==
    LET ProviderHeaderArrays ==
            {<<>>,
             <<<<"x-a", "v1">>, <<"Accept-Encoding", "gzip">>>>,
             <<<<"x-a", "v1">>, <<"X-New", "n1">>, <<"x-a", "v2">>, <<"x-new", "n2">>>>}
        ResultHeaderArrays ==
            {<<>>, <<<<"x-policy", "p">>>>, <<<<"content-length", "7">>>>}
    IN  {TransportFailure}
        \cup IF phase = "access"
             THEN {HttpReply(200, <<>>, WithHeaders(AllowBody(NoState), w, u)) :
                       w \in ProviderHeaderArrays, u \in {"", "h2"}}
                  \cup {HttpReply(200, <<>>, DenyBody(<<"4", "0", "3">>))}
             ELSE {HttpReply(200, <<>>, WithHeaders(PlainResultBody, w, "")) :
                       w \in ResultHeaderArrays}

\* the replies a provider call of each phase may get: the above, and the
\* first and the last 4xx and the first 5xx
AccessReplies ==
    Replies("access") \cup FlowReplies("access") \cup HeaderReplies("access")
    \cup {HttpReply(s, <<>>, ErrorBody) : s \in {400, 499, 500}}

ResponseReplies ==
    Replies("response") \cup FlowReplies("response") \cup HeaderReplies("response")
    \cup {HttpReply(s, <<>>, ErrorBody) : s \in {400, 499, 500}}

\* the replies of either phase
SpecReplies == Replies("access") \cup Replies("response")

AllFlowReplies == FlowReplies("access") \cup FlowReplies("response")

(***************************************************************************)
(* Configuration (Config), immutable per plugin instance.                  *)
(***************************************************************************)
DefaultMCPRetryMethods == <<"tools/list", "resources/list", "prompts/list", "initialize">>

PassthroughChoices == {<<413>>, <<429, 503>>}

\* mcp_jsonrpc_errors is read only for a payload with MCP context, which
\* takes enable_mcp: the combination without enable_mcp behaves as neither.
\* strip_accept_encoding acts on the headers of the forwarded request only;
\* it is set in the configurations of the specification that follows them.
\* max_sideband_body_bytes is 0 (no limit) but in the specification of the
\* payload size limit
Configs ==
    {c \in [FailOpen               : BOOLEAN,
            PassthroughStatusCodes : PassthroughChoices,
            MaxRetries             : 0..MaxRetriesBound,
            CircuitBreakerEnabled  : BOOLEAN,
            SkipResponsePhase      : BOOLEAN,
            EnableMCP              : BOOLEAN,
            MCPJsonrpcErrors       : BOOLEAN,
            MCPRetryMethods        : {DefaultMCPRetryMethods},
            StripAcceptEncoding    : {FALSE},
            MaxSidebandBodyBytes   : {0}] :
        c.MCPJsonrpcErrors => c.EnableMCP}

(***************************************************************************)
(* Config.getHTTPClient.  The once record is the sync.Once of a Config     *)
(* with the number of clients the Config has made so far; the breaker of   *)
(* the client stands for the client.  Once.Do runs its function under the  *)
(* Once's mutex, so the call is one atomic step.                           *)
(***************************************************************************)
NoClientYet == [done |-> FALSE, created |-> 0]

MaxCreated == 3

\* getHTTPClient making a new client on every call
getHTTPClientEveryCall(once, breaker, c) ==
    [once |-> [done |-> TRUE,
               created |-> IF once.created < MaxCreated THEN once.created + 1
                           ELSE once.created],
     cb   |-> NewCircuitBreaker(c.CircuitBreakerEnabled)]

getHTTPClient(once, breaker, c) ==
    IF once.done THEN [once |-> once, cb |-> breaker]
    ELSE [once |-> [done |-> TRUE, created |-> once.created + 1],
          cb   |-> NewCircuitBreaker(c.CircuitBreakerEnabled)]

isPassthroughCode(code, c) ==
    \E i \in 1..Len(c.PassthroughStatusCodes) : c.PassthroughStatusCodes[i] = code

(***************************************************************************)
(* SidebandHTTPClient.Execute: the retry loop.  A call record holds the    *)
(* locals of Execute; a return record holds its results.                   *)
(***************************************************************************)
NewCall(mcpMethod) ==
    [active |-> TRUE, mcpMethod |-> mcpMethod, attempt |-> 0, lastErr |-> FALSE,
     lastStatus |-> 0, lastRetryAfter |-> <<>>, lastBody |-> EmptyBody]

NoCall ==
    [active |-> FALSE, mcpMethod |-> "", attempt |-> 0, lastErr |-> FALSE,
     lastStatus |-> 0, lastRetryAfter |-> <<>>, lastBody |-> EmptyBody]

\* err is "nil", "error" (a plain error) or "cbopen" (a *CircuitBreakerOpenError)
Return(statusCode, retryAfter, body, err, cbe) ==
    [statusCode |-> statusCode, retryAfter |-> retryAfter, body |-> body,
     err |-> err, cbErr |-> cbe]

NoReturn == Return(0, <<>>, EmptyBody, "nil", NoCbErr)

NoTrip == [fire |-> FALSE, trigger |-> TriggerNone, retryAfterSec |-> 0]

TripWith(trigger, retryAfterSec) ==
    [fire |-> TRUE, trigger |-> trigger, retryAfterSec |-> retryAfterSec]

\* the limit counted one too high
maxAttemptsOffByOne(c, mcpMethod) ==
    IF mcpMethod # "" /\ ~isMCPMethodRetryable(mcpMethod, c.MCPRetryMethods)
    THEN 1
    ELSE 2 + c.MaxRetries

\* the limit without the MCP rule
maxAttemptsNoCap(c, mcpMethod) == 1 + c.MaxRetries

maxAttempts(c, mcpMethod) ==
    IF mcpMethod # "" /\ ~isMCPMethodRetryable(mcpMethod, c.MCPRetryMethods)
    THEN 1
    ELSE 1 + c.MaxRetries

\* the code after the loop: all attempts are used up
Exhausted(k) ==
    [done |-> TRUE, call |-> k,
     trip |-> IF k.lastErr
              THEN IF k.lastStatus >= 500 THEN TripWith(Trigger5xx, defaultRetryAfterSec)
                   ELSE IF k.lastStatus = 0
                        THEN TripWith(TriggerTimeout, defaultRetryAfterSec)
                        ELSE NoTrip
              ELSE NoTrip,
     ret  |-> IF k.lastStatus > 0
              THEN Return(k.lastStatus, k.lastRetryAfter, k.lastBody,
                          IF k.lastErr THEN "error" ELSE "nil", NoCbErr)
              ELSE Return(0, <<>>, EmptyBody, IF k.lastErr THEN "error" ELSE "nil", NoCbErr)]

\* Execute keeping the status of an earlier 5xx when an attempt fails in transport
ExecuteKeepsStatus(c, k, reply) ==
    LET next(k1) == IF k1.attempt < maxAttempts(c, k1.mcpMethod)
                    THEN [done |-> FALSE, call |-> k1, trip |-> NoTrip, ret |-> NoReturn]
                    ELSE Exhausted(k1)
    IN  IF reply.kind = "transport"
        THEN next([k EXCEPT !.lastErr = TRUE, !.attempt = k.attempt + 1])
        ELSE IF reply.status = 429
        THEN [done |-> TRUE, call |-> k,
              trip |-> TripWith(Trigger429, parseRetryAfter(reply.retryAfter)),
              ret  |-> Return(reply.status, reply.retryAfter, reply.body, "nil", NoCbErr)]
        ELSE IF reply.status >= 500
        THEN next([k EXCEPT !.lastErr = TRUE, !.lastStatus = reply.status,
                            !.lastRetryAfter = reply.retryAfter,
                            !.lastBody = reply.body, !.attempt = k.attempt + 1])
        ELSE [done |-> TRUE, call |-> k, trip |-> NoTrip,
              ret  |-> Return(reply.status, reply.retryAfter, reply.body, "nil", NoCbErr)]

\* Execute retrying every error status, 4xx as well as 5xx
ExecuteRetries4xx(c, k, reply) ==
    LET next(k1) == IF k1.attempt < maxAttempts(c, k1.mcpMethod)
                    THEN [done |-> FALSE, call |-> k1, trip |-> NoTrip, ret |-> NoReturn]
                    ELSE Exhausted(k1)
    IN  IF reply.kind = "transport"
        THEN next([k EXCEPT !.lastErr = TRUE, !.lastStatus = 0, !.lastRetryAfter = <<>>,
                            !.lastBody = EmptyBody, !.attempt = k.attempt + 1])
        ELSE IF reply.status = 429
        THEN [done |-> TRUE, call |-> k,
              trip |-> TripWith(Trigger429, parseRetryAfter(reply.retryAfter)),
              ret  |-> Return(reply.status, reply.retryAfter, reply.body, "nil", NoCbErr)]
        ELSE IF reply.status >= 400
        THEN next([k EXCEPT !.lastErr = TRUE, !.lastStatus = reply.status,
                            !.lastRetryAfter = reply.retryAfter,
                            !.lastBody = reply.body, !.attempt = k.attempt + 1])
        ELSE [done |-> TRUE, call |-> k, trip |-> NoTrip,
              ret  |-> Return(reply.status, reply.retryAfter, reply.body, "nil", NoCbErr)]

\* one iteration of the loop with the outcome of doRequest, followed by the
\* loop test and, when the loop ends, by the code after it
Execute(c, k, reply) ==
    LET next(k1) == IF k1.attempt < maxAttempts(c, k1.mcpMethod)
                    THEN [done |-> FALSE, call |-> k1, trip |-> NoTrip, ret |-> NoReturn]
                    ELSE Exhausted(k1)
    IN  IF reply.kind = "transport"
        THEN next([k EXCEPT !.lastErr = TRUE, !.lastStatus = 0, !.lastRetryAfter = <<>>,
                            !.lastBody = EmptyBody, !.attempt = k.attempt + 1])
        ELSE IF reply.status = 429
        THEN [done |-> TRUE, call |-> k,
              trip |-> TripWith(Trigger429, parseRetryAfter(reply.retryAfter)),
              ret  |-> Return(reply.status, reply.retryAfter, reply.body, "nil", NoCbErr)]
        ELSE IF reply.status >= 500
        THEN next([k EXCEPT !.lastErr = TRUE, !.lastStatus = reply.status,
                            !.lastRetryAfter = reply.retryAfter,
                            !.lastBody = reply.body, !.attempt = k.attempt + 1])
        ELSE [done |-> TRUE, call |-> k, trip |-> NoTrip,
              ret  |-> Return(reply.status, reply.retryAfter, reply.body, "nil", NoCbErr)]

(***************************************************************************)
(* SidebandProvider: what EvaluateRequest / EvaluateResponse make of the   *)
(* return of Execute.  kind is cbopen, error, httperr or ok.               *)
(***************************************************************************)
Result(kind, cbe, statusCode, body) ==
    [kind |-> kind, cbErr |-> cbe, StatusCode |-> statusCode, Body |-> body]

NoResult == Result("none", NoCbErr, 0, EmptyBody)

EvaluateRequest(ret) ==
    IF ret.err # "nil" THEN Result(ret.err, ret.cbErr, 0, EmptyBody)
    ELSE IF ret.statusCode >= 400 THEN Result("httperr", NoCbErr, ret.statusCode, ret.body)
    ELSE IF ~ret.body.valid THEN Result("error", NoCbErr, 0, EmptyBody)
    ELSE Result("ok", NoCbErr, ret.statusCode, ret.body)

EvaluateResponse(ret) ==
    IF ret.err # "nil" THEN Result(ret.err, ret.cbErr, 0, EmptyBody)
    ELSE IF ret.statusCode >= 400 THEN Result("httperr", NoCbErr, ret.statusCode, ret.body)
    ELSE IF ~ret.body.valid THEN Result("error", NoCbErr, 0, EmptyBody)
    ELSE Result("ok", NoCbErr, ret.statusCode, ret.body)

(***************************************************************************)
(* Headers.  A header map (map[string][]string) is a function from a set   *)
(* of names to non-empty tuples of values.  The host keeps the headers of  *)
(* a message under case-insensitive names: its tables are keyed by the     *)
(* lowercased name.                                                        *)
(***************************************************************************)
NoHeaderMap == [n \in {} |-> <<>>]

\* strings.ToLower on the header names of the model
ToLower(name) ==
    CASE name = "Accept-Encoding" -> "accept-encoding"
      [] name = "Host" -> "host"
      [] name = "X-New" -> "x-new"
      [] name = "Content-Type" -> "content-type"
      [] OTHER -> name

\* the loop of updateRequest that lowercases the names of the current headers
LowerKeys(h) ==
    [n \in {ToLower(m) : m \in DOMAIN h} |-> h[CHOOSE m \in DOMAIN h : ToLower(m) = n]]

\* the orders in which a range loop may visit the keys of the map headers
IterationOrders(headers) ==
    {o \in [1..Cardinality(DOMAIN headers) -> DOMAIN headers] :
        \A k \in DOMAIN headers : \E i \in DOMAIN o : o[i] = k}

\* FormatHeaders with its range loop visiting the keys in the given order; an
\* entry of the array is the pair of its name and its value
FormatHeaders(headers, order) ==
    LET RECURSIVE result(_)
        result(i) ==
            IF i > Len(order) THEN <<>>
            ELSE LET name == order[i]
                     values == headers[name]
                     lowerName == ToLower(name)
                 IN  [j \in 1..Len(values) |-> <<lowerName, values[j]>>] \o result(i + 1)
    IN  IF Cardinality(DOMAIN headers) = 0 THEN <<>> ELSE result(1)

FlattenHeaders(headers) ==
    LET valuesOf(n) ==
            LET collected[i \in 0..Len(headers)] ==
                    IF i = 0 THEN <<>>
                    ELSE IF ToLower(headers[i][1]) = n
                         THEN Append(collected[i - 1], headers[i][2])
                         ELSE collected[i - 1]
            IN  collected[Len(headers)]
    IN  [n \in {ToLower(headers[i][1]) : i \in 1..Len(headers)} |-> valuesOf(n)]

stringSliceEqual(a, b) == Len(a) = Len(b) /\ \A i \in 1..Len(a) : a[i] = b[i]

\* kong.ServiceRequest.ClearHeader on the header table h
ClearHeader(h, name) == [n \in DOMAIN h \ {ToLower(name)} |-> h[n]]

\* kong.ServiceRequest.SetHeader with the first value, then AddHeader with
\* each of the others
SetHeader(h, name, values) ==
    [n \in DOMAIN h \cup {ToLower(name)} |-> IF n = ToLower(name) THEN values ELSE h[n]]

\* the host of the forwarded URL of every request of the model
CurrentHost == "h1"

\* updateRequest clearing Accept-Encoding before it installs the provider's
\* headers
updateRequestStripsFirst(c, currentHeaders, resp, svc) ==
    LET currentFlat == LowerKeys(currentHeaders)
        newFlat     == FlattenHeaders(resp.headers)
        stripped    == IF c.StripAcceptEncoding THEN ClearHeader(svc, "Accept-Encoding")
                       ELSE svc
        cleared     == [n \in DOMAIN stripped \ (DOMAIN currentFlat \ DOMAIN newFlat)
                            |-> stripped[n]]
        changed     == {n \in DOMAIN newFlat :
                            \/ n \notin DOMAIN currentFlat
                            \/ ~stringSliceEqual(currentFlat[n], newFlat[n])}
        installed   == [n \in DOMAIN cleared \cup changed |->
                            IF n \in changed THEN newFlat[n] ELSE cleared[n]]
    IN  IF resp.urlHost # "" /\ resp.urlHost # CurrentHost
        THEN SetHeader(installed, "Host", <<resp.urlHost>>)
        ELSE installed

\* the header part of updateRequest: what it makes of the header table svc
\* of the request to forward, given the headers of the client's request and
\* the provider's reply; the Host header follows a url whose host changed
updateRequest(c, currentHeaders, resp, svc) ==
    LET currentFlat == LowerKeys(currentHeaders)
        newFlat     == FlattenHeaders(resp.headers)
        cleared     == [n \in DOMAIN svc \ (DOMAIN currentFlat \ DOMAIN newFlat) |-> svc[n]]
        changed     == {n \in DOMAIN newFlat :
                            \/ n \notin DOMAIN currentFlat
                            \/ ~stringSliceEqual(currentFlat[n], newFlat[n])}
        installed   == [n \in DOMAIN cleared \cup changed |->
                            IF n \in changed THEN newFlat[n] ELSE cleared[n]]
        stripped    == IF c.StripAcceptEncoding
                       THEN ClearHeader(installed, "Accept-Encoding")
                       ELSE installed
    IN  IF resp.urlHost # "" /\ resp.urlHost # CurrentHost
        THEN SetHeader(stripped, "Host", <<resp.urlHost>>)
        ELSE stripped

(***************************************************************************)
(* Access orchestrator.  A payload is the part of a SidebandAccessRequest  *)
(* the orchestrators look at; an outcome tells whether the phase answered  *)
(* the client (exit), whether the per-request context was stored, with     *)
(* which state, and whether updateRequest was applied.                     *)
(***************************************************************************)
Payload(body, mcp) == [Body |-> body, MCP |-> mcp]

NoPayload == Payload(EmptyBody, NoMCP)

\* TruncateBody: the first maxBytes bytes of the body and a marker that
\* gives the length of the whole; what it returns for a longer body is not
\* a JSON document
TruncateBody(body, maxBytes) ==
    LET RECURSIVE FormatInt(_)
        FormatInt(n) ==
            IF n < 10 THEN <<Digits[n + 1]>>
            ELSE FormatInt(n \div 10) \o <<Digits[(n % 10) + 1]>>
    IN  IF maxBytes <= 0 \/ Len(body.raw) <= maxBytes THEN body
        ELSE [body EXCEPT
                 !.raw = SubSeq(body.raw, 1, maxBytes)
                         \o <<".", ".", ".", " ", "[", "t", "r", "u", "n", "c", "a", "t",
                              "e", "d", ",", " ">>
                         \o FormatInt(Len(body.raw))
                         \o <<" ", "b", "y", "t", "e", "s", "]">>,
                 !.text = "truncated",
                 !.valid = FALSE, !.jsonrpc = "", !.method = "", !.id = NoId]

\* len(json.Marshal(req)) for a request whose fields other than body and
\* mcp are empty: the object with its seven fields that are always written
\* (95 bytes, the quotes of the body among them), the bytes of the body as
\* a JSON string, and traffic_type and mcp for an MCP request (55 bytes
\* with a method of 10 bytes such as tools/call, and 18 more and its
\* bytes for an id)
payloadBytes(req) ==
    LET stringBytes(ch) ==
            IF ch \in {"<", ">", "&"} THEN 6
            ELSE IF ch \in {"\"", "\\", "\n", "\r", "\t"} THEN 2
            ELSE 1
        RECURSIVE bodyBytes(_)
        bodyBytes(raw) ==
            IF raw = <<>> THEN 0 ELSE stringBytes(Head(raw)) + bodyBytes(Tail(raw))
    IN  95 + bodyBytes(req.Body.raw)
           + (IF ~req.MCP.present THEN 0
              ELSE IF Len(req.MCP.JsonrpcID) = 0 THEN 55
              ELSE 55 + 18 + Len(appendCompact(req.MCP.JsonrpcID)))

composeAccessPayload(c, body) ==
    LET req == Payload(body, IF c.EnableMCP THEN ParseMCPRequest(body) ELSE NoMCP)
    IN  IF c.MaxSidebandBodyBytes > 0 /\ payloadBytes(req) > c.MaxSidebandBodyBytes
        THEN [req EXCEPT !.Body = TruncateBody(req.Body, c.MaxSidebandBodyBytes \div 2)]
        ELSE req

Outcome(exit, ans, stored, state, updated) ==
    [exit |-> exit, answer |-> ans, stored |-> stored, state |-> state, updated |-> updated]

Continue(stored, state, updated) == Outcome(FALSE, NoAnswer, stored, state, updated)

Answered(ans) == Outcome(TRUE, ans, FALSE, NoState, FALSE)

\* the remaining seconds rounded down, not up
remainingSecOfRoundedDown(cbe) ==
    LET remainingSec == cbe.RemainingMs \div 1000
    IN  IF remainingSec < 1 THEN 1 ELSE remainingSec

remainingSecOf(cbe) ==
    LET remainingSec == (cbe.RemainingMs + 999) \div 1000
    IN  IF remainingSec < 1 THEN 1 ELSE remainingSec

\* handleCircuitBreakerError consulting fail_open before the trigger
handleCircuitBreakerErrorFailOpenFirst(cbe, c, payload) ==
    IF c.FailOpen THEN Continue(FALSE, NoState, FALSE)
    ELSE IF cbe.Trigger = Trigger429
    THEN Answered(Exit(429, LimitExceededBody(remainingSecOf(cbe)),
                       RetryHeaders(remainingSecOf(cbe))))
    ELSE Answered(Exit(502, NilBody, NoHeaders))

handleCircuitBreakerError(cbe, c, payload) ==
    IF cbe.Trigger = Trigger429
    THEN IF c.MCPJsonrpcErrors /\ payload.MCP.present
         THEN Answered(Exit(429,
                  formatMCPDenyResponse(429,
                      "Service temporarily unavailable. Retry after %d seconds.",
                      remainingSecOf(cbe), payload.MCP.JsonrpcID),
                  RetryHeaders(remainingSecOf(cbe))))
         ELSE Answered(Exit(429, LimitExceededBody(remainingSecOf(cbe)),
                            RetryHeaders(remainingSecOf(cbe))))
    ELSE IF c.FailOpen THEN Continue(FALSE, NoState, FALSE)
    ELSE IF c.MCPJsonrpcErrors /\ payload.MCP.present
         THEN Answered(Exit(502,
                  formatMCPDenyResponse(502, "Service temporarily unavailable.", 0,
                                        payload.MCP.JsonrpcID),
                  JsonHeaders))
         ELSE Answered(Exit(502, NilBody, NoHeaders))

\* handleAccessResponse without the 403 default for a response_code that
\* is not a number
handleAccessResponseNoDefault(c, resp, payload) ==
    IF resp.hasResponse
    THEN LET statusCode == Atoi(resp.response_code).val
         IN  IF c.MCPJsonrpcErrors /\ payload.MCP.present
             THEN Answered(Exit(statusCode,
                      formatMCPDenyResponse(statusCode, resp.text, 0, payload.MCP.JsonrpcID),
                      JsonHeaders))
             ELSE Answered(Exit(statusCode, RawBody(resp.text), ProviderHeaders))
    ELSE Continue(TRUE, resp.state, TRUE)

\* handleAccessResponse storing the context of a denied request
handleAccessResponseStoresOnDeny(c, resp, payload) ==
    IF resp.hasResponse
    THEN LET a          == Atoi(resp.response_code)
             statusCode == IF a.ok THEN a.val ELSE 403
         IN  IF c.MCPJsonrpcErrors /\ payload.MCP.present
             THEN Outcome(TRUE, Exit(statusCode,
                      formatMCPDenyResponse(statusCode, resp.text, 0, payload.MCP.JsonrpcID),
                      JsonHeaders), TRUE, resp.state, FALSE)
             ELSE Outcome(TRUE, Exit(statusCode, RawBody(resp.text), ProviderHeaders),
                          TRUE, resp.state, FALSE)
    ELSE Continue(TRUE, resp.state, TRUE)

\* handleAccessResponse calling updateRequest before it looks for a deny
handleAccessResponseUpdatesFirst(c, resp, payload) ==
    IF resp.hasResponse
    THEN LET a          == Atoi(resp.response_code)
             statusCode == IF a.ok THEN a.val ELSE 403
         IN  IF c.MCPJsonrpcErrors /\ payload.MCP.present
             THEN Outcome(TRUE, Exit(statusCode,
                      formatMCPDenyResponse(statusCode, resp.text, 0, payload.MCP.JsonrpcID),
                      JsonHeaders), FALSE, NoState, TRUE)
             ELSE Outcome(TRUE, Exit(statusCode, RawBody(resp.text), ProviderHeaders),
                          FALSE, NoState, TRUE)
    ELSE Continue(TRUE, resp.state, TRUE)

handleAccessResponse(c, resp, payload) ==
    IF resp.hasResponse
    THEN LET a          == Atoi(resp.response_code)
             statusCode == IF a.ok THEN a.val ELSE 403
         IN  IF c.MCPJsonrpcErrors /\ payload.MCP.present
             THEN Answered(Exit(statusCode,
                      formatMCPDenyResponse(statusCode, resp.text, 0, payload.MCP.JsonrpcID),
                      JsonHeaders))
             ELSE Answered(Exit(statusCode, RawBody(resp.text), ProviderHeaders))
    ELSE Continue(TRUE, resp.state, TRUE)

\* executeAccess applying fail_open to plain errors only, not to HTTP errors
executeAccessBlocksHttpErrors(c, payload, res) ==
    IF res.kind = "cbopen" THEN handleCircuitBreakerError(res.cbErr, c, payload)
    ELSE IF res.kind = "httperr" /\ isPassthroughCode(res.StatusCode, c)
    THEN Answered(Exit(res.StatusCode, RawBody(res.Body.text), JsonHeaders))
    ELSE IF res.kind = "httperr" THEN Answered(Exit(502, NilBody, NoHeaders))
    ELSE IF res.kind = "error"
    THEN IF c.FailOpen THEN Continue(TRUE, NoState, FALSE)
         ELSE Answered(Exit(502, NilBody, NoHeaders))
    ELSE handleAccessResponse(c, res.Body, payload)

\* executeAccess after the provider call has returned res
executeAccess(c, payload, res) ==
    IF res.kind = "cbopen" THEN handleCircuitBreakerError(res.cbErr, c, payload)
    ELSE IF res.kind = "httperr" /\ isPassthroughCode(res.StatusCode, c)
    THEN Answered(Exit(res.StatusCode, RawBody(res.Body.text), JsonHeaders))
    ELSE IF res.kind \in {"httperr", "error"}
    THEN IF c.FailOpen THEN Continue(TRUE, NoState, FALSE)
         ELSE Answered(Exit(502, NilBody, NoHeaders))
    ELSE handleAccessResponse(c, res.Body, payload)

(***************************************************************************)
(* The access orchestrator of version 2.0.0, which knows no MCP option.    *)
(***************************************************************************)
composeAccessPayloadV200(c, body) == Payload(body, NoMCP)

handleCircuitBreakerErrorV200(cbe, c) ==
    IF cbe.Trigger = Trigger429
    THEN Answered(Exit(429, LimitExceededBody(remainingSecOf(cbe)),
                       RetryHeaders(remainingSecOf(cbe))))
    ELSE IF c.FailOpen THEN Continue(FALSE, NoState, FALSE)
    ELSE Answered(Exit(502, NilBody, NoHeaders))

handleAccessResponseV200(c, resp) ==
    IF resp.hasResponse
    THEN LET a          == Atoi(resp.response_code)
             statusCode == IF a.ok THEN a.val ELSE 403
         IN  Answered(Exit(statusCode, RawBody(resp.text), ProviderHeaders))
    ELSE Continue(TRUE, resp.state, TRUE)

executeAccessV200(c, payload, res) ==
    IF res.kind = "cbopen" THEN handleCircuitBreakerErrorV200(res.cbErr, c)
    ELSE IF res.kind = "httperr" /\ isPassthroughCode(res.StatusCode, c)
    THEN Answered(Exit(res.StatusCode, RawBody(res.Body.text), JsonHeaders))
    ELSE IF res.kind \in {"httperr", "error"}
    THEN IF c.FailOpen THEN Continue(TRUE, NoState, FALSE)
         ELSE Answered(Exit(502, NilBody, NoHeaders))
    ELSE handleAccessResponseV200(c, res.Body)

(***************************************************************************)
(* Per-request context (kong.Ctx shared slots of one request).             *)
(***************************************************************************)
NoCtx == [hasOriginal |-> FALSE, original_request |-> NoPayload,
          state |-> NoState, mcp_context |-> NoMCP]

storePerRequestContext(originalRequest, state) ==
    [hasOriginal |-> TRUE, original_request |-> originalRequest,
     state |-> state, mcp_context |-> originalRequest.MCP]

\* missingIsError: what GetSharedString does for a slot that was never set
loadPerRequestContext(x, missingIsError) ==
    IF ~x.hasOriginal /\ missingIsError
    THEN [err |-> TRUE, request |-> NoPayload, state |-> NoState]
    ELSE [err |-> FALSE,
          request |-> Payload(IF x.hasOriginal THEN x.original_request.Body ELSE EmptyBody,
                              IF x.mcp_context.present THEN x.mcp_context
                              ELSE IF x.hasOriginal THEN x.original_request.MCP ELSE NoMCP),
          state |-> x.state]

(***************************************************************************)
(* Response orchestrator.                                                  *)
(***************************************************************************)
ResponsePayload(body, hasState, state, hasRequest, request, mcp) ==
    [Body |-> body, hasState |-> hasState, State |-> state,
     hasRequest |-> hasRequest, Request |-> request, MCP |-> mcp]

NoResponsePayload == ResponsePayload(EmptyBody, FALSE, NoState, FALSE, NoPayload, NoMCP)

(***************************************************************************)
(* SSE final-message extraction.  The bytes of a stream are spelled out as *)
(* lexemes: the line feed, the space, the prefix data:, a line of another  *)
(* field, and the payloads, each a JSON text or a text that is not JSON.   *)
(***************************************************************************)
LF == "\n"

Space == " "

DataPrefix == "data:"

\* the payloads of the model: a notification (no id), two responses with an
\* id, a message with an id that is not JSON-RPC 2.0, and a text that is
\* not JSON
SsePayloads == {"{progress}", "{result 1}", "{result 5}", "{v1 result 1}", "not json"}

\* the body a payload is when it is decoded on its own
SsePayloadBody(data) ==
    WithRaw(CASE data = <<"{progress}">> ->
                     MkBody("{progress}", TRUE, "2.0", "notifications/progress", NoId,
                            FALSE, <<>>, NoState)
              [] data = <<"{result 1}">> ->
                     MkBody("{result 1}", TRUE, "2.0", "", <<"1">>, FALSE, <<>>, NoState)
              [] data = <<"{result 5}">> ->
                     MkBody("{result 5}", TRUE, "2.0", "", <<"5">>, FALSE, <<>>, NoState)
              [] data = <<"{v1 result 1}">> ->
                     MkBody("{v1 result 1}", TRUE, "1.0", "", <<"1">>, FALSE, <<>>, NoState)
              [] OTHER -> MkBody("data", FALSE, "", "", NoId, FALSE, <<>>, NoState),
            data)

\* strings.HasPrefix(strings.ToLower(strings.TrimSpace(contentType)),
\* "text/event-stream") on the content types of the model
isSSEContentType(contentType) ==
    contentType \in {"text/event-stream", "text/event-stream; charset=utf-8",
                     " Text/Event-Stream"}

\* json.Unmarshal into the probe succeeds, jsonrpc is 2.0 and id has bytes
isJsonRPCResponse(data) ==
    /\ SsePayloadBody(data).valid
    /\ SsePayloadBody(data).jsonrpc = "2.0"
    /\ Len(SsePayloadBody(data).id) > 0

\* bytes.Split(body, "\n")
SplitLines(raw) ==
    LET RECURSIVE lines(_, _)
        lines(i, line) ==
            IF i > Len(raw) THEN <<line>>
            ELSE IF raw[i] = LF THEN <<line>> \o lines(i + 1, <<>>)
            ELSE lines(i + 1, Append(line, raw[i]))
    IN  lines(1, <<>>)

\* bytes.TrimSpace
TrimSpace(line) ==
    LET RECURSIVE trimmed(_)
        trimmed(l) ==
            IF Len(l) = 0 THEN l
            ELSE IF l[1] = Space THEN trimmed(Tail(l))
            ELSE IF l[Len(l)] = Space THEN trimmed(SubSeq(l, 1, Len(l) - 1))
            ELSE l
    IN  trimmed(line)

\* the first candidate is kept, not the last
ParseSSEFirstMessage(body, contentType) ==
    LET lines == SplitLines(body.raw)
        dataOf(i) == TrimSpace(Tail(TrimSpace(lines[i])))
        isCandidate(i) ==
            /\ Len(TrimSpace(lines[i])) > 0 /\ TrimSpace(lines[i])[1] = DataPrefix
            /\ Len(dataOf(i)) > 0
            /\ SsePayloadBody(dataOf(i)).valid /\ isJsonRPCResponse(dataOf(i))
        candidates == {i \in 1..Len(lines) : isCandidate(i)}
    IN  IF ~isSSEContentType(contentType) THEN body
        ELSE IF body.text = "" THEN body
        ELSE IF candidates # {}
             THEN SsePayloadBody(dataOf(CHOOSE i \in candidates :
                                            \A k \in candidates : i <= k))
             ELSE body

ParseSSEFinalMessage(body, contentType) ==
    LET lines == SplitLines(body.raw)
        \* lastValidJSON after the first i lines; <<>> stands for nil
        lastValidJSON[i \in 0..Len(lines)] ==
            IF i = 0 THEN <<>>
            ELSE LET line == TrimSpace(lines[i])
                 IN  IF ~(Len(line) > 0 /\ line[1] = DataPrefix) THEN lastValidJSON[i - 1]
                     ELSE LET data == TrimSpace(Tail(line))
                          IN  IF Len(data) = 0 THEN lastValidJSON[i - 1]
                              ELSE IF SsePayloadBody(data).valid /\ isJsonRPCResponse(data)
                                   THEN data
                                   ELSE lastValidJSON[i - 1]
    IN  IF ~isSSEContentType(contentType) THEN body
        ELSE IF body.text = "" THEN body
        ELSE IF lastValidJSON[Len(lines)] # <<>>
             THEN SsePayloadBody(lastValidJSON[Len(lines)])
             ELSE body

\* the first value of the Content-Type header, whatever the case of its name
getResponseContentType(headers) ==
    LET names == {name \in DOMAIN headers :
                     ToLower(name) = "content-type" /\ Len(headers[name]) > 0}
    IN  IF names = {} THEN "" ELSE headers[CHOOSE name \in names : TRUE][1]

composeResponsePayload(c, originalRequest, state, responseBodyBytes, responseHeaders) ==
    LET contentType == getResponseContentType(responseHeaders)
        responseBody ==
            IF c.EnableMCP /\ isSSEContentType(contentType)
            THEN ParseSSEFinalMessage(responseBodyBytes, contentType)
            ELSE responseBodyBytes
    IN  ResponsePayload(responseBody,
            Len(state) > 0, state,
            Len(state) = 0, IF Len(state) = 0 THEN originalRequest ELSE NoPayload,
            IF c.EnableMCP
            THEN IF ParseMCPRequest(responseBody).present
                 THEN ParseMCPRequest(responseBody)
                 ELSE originalRequest.MCP
            ELSE NoMCP)

\* the payload as json.Marshal writes it for the provider: state is under
\* omitempty and is a RawMessage
MarshalResponsePayload(p) ==
    [p EXCEPT !.hasState = Len(p.State) > 0, !.State = appendCompact(p.State)]

handleCircuitBreakerErrorResponse(cbe, c, originalRequest) ==
    IF cbe.Trigger = Trigger429
    THEN IF c.MCPJsonrpcErrors /\ originalRequest.MCP.present
         THEN Answered(Exit(429,
                  formatMCPDenyResponse(429,
                      "Service temporarily unavailable. Retry after %d seconds.",
                      remainingSecOf(cbe), originalRequest.MCP.JsonrpcID),
                  RetryHeaders(remainingSecOf(cbe))))
         ELSE Answered(Exit(429, LimitExceededBody(remainingSecOf(cbe)),
                            RetryHeaders(remainingSecOf(cbe))))
    ELSE IF c.FailOpen THEN Continue(FALSE, NoState, FALSE)
    ELSE IF c.MCPJsonrpcErrors /\ originalRequest.MCP.present
         THEN Answered(Exit(502,
                  formatMCPDenyResponse(502, "Service temporarily unavailable.", 0,
                                        originalRequest.MCP.JsonrpcID),
                  JsonHeaders))
         ELSE Answered(Exit(502, NilBody, NoHeaders))

\* the upstream headers the response phase is to keep
preservedResponseHeaders == {"content-length", "date", "connection", "vary"}

\* the header map handleResponseResult hands to kong.Response.Exit, which
\* builds the complete response from what it is given
policyHeaders(result) == FlattenHeaders(result.headers)

handleResponseResult(result) ==
    LET a          == Atoi(result.response_code)
        statusCode == IF a.ok THEN a.val ELSE 200
    IN  Answered(Exit(statusCode, RawBody(result.text), ProviderHeaders))

\* executeResponse after the provider call has returned res
executeResponse(c, originalRequest, res) ==
    IF res.kind = "cbopen" THEN handleCircuitBreakerErrorResponse(res.cbErr, c, originalRequest)
    ELSE IF res.kind = "httperr" /\ isPassthroughCode(res.StatusCode, c)
    THEN Answered(Exit(res.StatusCode, RawBody(res.Body.text), JsonHeaders))
    ELSE IF res.kind \in {"httperr", "error"}
    THEN IF c.FailOpen THEN Continue(FALSE, NoState, FALSE)
         ELSE Answered(Exit(502, NilBody, NoHeaders))
    ELSE handleResponseResult(res.Body)

(***************************************************************************)
(* State.                                                                  *)
(***************************************************************************)
VARIABLES
    conf,         \* the Config of the plugin instance
    now,          \* the clock, in ticks
    advances,     \* how many times the clock has advanced
    cb,           \* the CircuitBreaker of the instance's SidebandHTTPClient
    rlUntil,      \* history: latest end of a Retry-After window announced by a 429
    pc,           \* per request: idle, accessCall, upstream, responseCall, done, or
                  \* panic while a panic unwinds its orchestrator
    phase,        \* per request: phase of its current or last provider call (none: no call yet)
    payload,      \* per request: the access payload composed for it
    rpayload,     \* per request: the response payload sent for it, as marshalled
    ctx,          \* per request: the per-request context slots
    call,         \* per request: the locals of its running Execute
    netAttempts,  \* per request: doRequest calls made by its current or last Execute
    first,        \* per request, history: the reply of the first doRequest of that Execute
    last,         \* per request: the reply of the latest doRequest of that Execute
    res,          \* per request: what the provider client returned to the orchestrator
    answer,       \* per request: the answer given to the client (NoAnswer: none)
    updated,      \* per request: updateRequest has been called for it
    other,        \* the locals of the Execute that runs for a concurrent request
    mu,           \* the mutex of the breaker: the goroutine that holds it ("": free)
    gs,           \* per goroutine: the breaker method it runs statement by statement
    lastTrip,     \* history: the latest Trip that has written all its fields
    reqHeaders,   \* per request: the headers of the client's request (kong.Request)
    reqBody,      \* per request: the raw body of the client's request, as the access
                  \* phase read it (kong.Request.GetRawBody)
    svcHeaders,   \* per request: the headers of the request as it is forwarded to
                  \* the upstream (kong.ServiceRequest), under lowercased names
    upHeaders,    \* per request: the headers of the upstream's response
    upRawBody,    \* per request: the body of the upstream's response, once the
                  \* response phase has read it
    httpClientOnce, \* the sync.Once of the instance's Config: whether it has run,
                  \* and (history) how many clients the instance has made
    peer          \* another plugin instance: its sync.Once and its breaker
                  \* (kong.ServiceResponse)

vars == <<conf, now, advances, cb, rlUntil, pc, phase, payload, rpayload, ctx, call,
          netAttempts, first, last, res, answer, updated, other, mu, gs, lastTrip,
          reqHeaders, reqBody, svcHeaders, upHeaders, upRawBody, httpClientOnce, peer>>

messageVars == <<reqHeaders, reqBody, svcHeaders, upHeaders, upRawBody>>

lockVars == <<mu, gs, lastTrip>>

instanceVars == <<httpClientOnce, peer>>

requestVars == <<conf, rlUntil, pc, phase, payload, rpayload, ctx, call,
                 netAttempts, first, last, res, answer, updated, other, messageVars,
                 instanceVars>>

Goroutines == {"g1", "g2"}

\* a goroutine outside the methods of the breaker
IdleGoroutine == [pc |-> "idle"]

NoTripYet == [trigger |-> TriggerNone, retryAfterSec |-> 0, openedAt |-> 0]

clockVars == <<now, advances>>

RequestBodies == {EmptyBody, RpcBody("tools/call"), RpcBody("tools/list")}

PlainUpstreamBody == MkBody("upstream", TRUE, "", "", NoId, FALSE, <<>>, NoState)

UpstreamBodies == {PlainUpstreamBody, RpcBody("tools/list")}

Init ==
    /\ conf \in Configs
    /\ now = 0
    /\ advances = 0
    /\ cb = NewCircuitBreaker(conf.CircuitBreakerEnabled)
    /\ rlUntil = 0
    /\ pc = [r \in Requests |-> "idle"]
    /\ phase = [r \in Requests |-> "none"]
    /\ payload = [r \in Requests |-> NoPayload]
    /\ rpayload = [r \in Requests |-> NoResponsePayload]
    /\ ctx = [r \in Requests |-> NoCtx]
    /\ call = [r \in Requests |-> NoCall]
    /\ netAttempts = [r \in Requests |-> 0]
    /\ first = [r \in Requests |-> NoReply]
    /\ last = [r \in Requests |-> NoReply]
    /\ res = [r \in Requests |-> NoResult]
    /\ answer = [r \in Requests |-> NoAnswer]
    /\ updated = [r \in Requests |-> FALSE]
    /\ other = NoCall
    /\ mu = ""
    /\ gs = [g \in Goroutines |-> IdleGoroutine]
    /\ lastTrip = NoTripYet
    /\ reqHeaders = [r \in Requests |-> NoHeaderMap]
    /\ svcHeaders = [r \in Requests |-> NoHeaderMap]
    /\ upHeaders = [r \in Requests |-> NoHeaderMap]
    /\ reqBody = [r \in Requests |-> EmptyBody]
    /\ upRawBody = [r \in Requests |-> EmptyBody]
    /\ httpClientOnce = NoClientYet
    /\ peer = [httpClientOnce |-> NoClientYet,
               cb |-> NewCircuitBreaker(conf.CircuitBreakerEnabled)]

(***************************************************************************)
(* The end of a phase: the orchestrator handles what the provider client   *)
(* returned.                                                               *)
(***************************************************************************)
\* EndAccess keeping the context in variables of the plugin instance instead
\* of the slots of the request
EndAccessInstanceSlots(r, p, rs) ==
    LET o == executeAccess(conf, p, rs)
    IN  /\ res' = [res EXCEPT ![r] = rs]
        /\ answer' = [answer EXCEPT ![r] = o.answer]
        /\ ctx' = IF o.stored
                  THEN [q \in DOMAIN ctx |-> storePerRequestContext(p, o.state)]
                  ELSE ctx
        /\ updated' = [updated EXCEPT ![r] = o.updated]
        /\ svcHeaders' = [svcHeaders EXCEPT ![r] =
                              IF o.updated THEN updateRequest(conf, reqHeaders[r], rs.Body, @)
                              ELSE @]
        /\ pc' = [pc EXCEPT ![r] = IF o.exit THEN "done" ELSE "upstream"]

EndAccess(r, p, rs) ==
    LET o == executeAccess(conf, p, rs)
    IN  /\ res' = [res EXCEPT ![r] = rs]
        /\ answer' = [answer EXCEPT ![r] = o.answer]
        /\ ctx' = [ctx EXCEPT ![r] = IF o.stored THEN storePerRequestContext(p, o.state)
                                     ELSE @]
        /\ updated' = [updated EXCEPT ![r] = o.updated]
        /\ svcHeaders' = [svcHeaders EXCEPT ![r] =
                              IF o.updated THEN updateRequest(conf, reqHeaders[r], rs.Body, @)
                              ELSE @]
        /\ pc' = [pc EXCEPT ![r] = IF o.exit THEN "done" ELSE "upstream"]

EndResponse(r, originalRequest, rs) ==
    LET o == executeResponse(conf, originalRequest, rs)
    IN  /\ res' = [res EXCEPT ![r] = rs]
        /\ answer' = [answer EXCEPT ![r] = o.answer]
        /\ pc' = [pc EXCEPT ![r] = "done"]
        /\ UNCHANGED <<ctx, updated, svcHeaders>>

(***************************************************************************)
(* Config.Access up to the first doRequest: compose the payload, ask the   *)
(* breaker, and on a rejection answer at once.                             *)
(***************************************************************************)
AccessBegin(r, body, composeOk) ==
    /\ UNCHANGED <<peer, lockVars, reqHeaders, upHeaders, upRawBody>>
    /\ httpClientOnce' = IF composeOk THEN getHTTPClient(httpClientOnce, cb, conf).once
                         ELSE httpClientOnce
    /\ reqBody' = [reqBody EXCEPT ![r] = IF composeOk THEN body ELSE @]
    /\ pc[r] = "idle"
    /\ UNCHANGED <<conf, clockVars, rlUntil, rpayload, other>>
    /\ IF ~composeOk
       THEN /\ answer' = [answer EXCEPT ![r] = Exit(400, NilBody, NoHeaders)]
            /\ pc' = [pc EXCEPT ![r] = "done"]
            /\ UNCHANGED <<cb, phase, payload, ctx, call, netAttempts, first, last, res,
                           updated, svcHeaders>>
       ELSE LET p == composeAccessPayload(conf, body)
                a == Allow(getHTTPClient(httpClientOnce, cb, conf).cb, now)
            IN  /\ phase' = [phase EXCEPT ![r] = "access"]
                /\ netAttempts' = [netAttempts EXCEPT ![r] = 0]
                /\ first' = [first EXCEPT ![r] = NoReply]
                /\ last' = [last EXCEPT ![r] = NoReply]
                /\ payload' = [payload EXCEPT ![r] = p]
                /\ cb' = a.cb
                /\ IF a.ok
                   THEN /\ call' = [call EXCEPT ![r] = NewCall(p.MCP.Method)]
                        /\ pc' = [pc EXCEPT ![r] = "accessCall"]
                        /\ UNCHANGED <<ctx, res, answer, updated, svcHeaders>>
                   ELSE /\ EndAccess(r, p,
                               EvaluateRequest(Return(0, <<>>, EmptyBody, "cbopen", a.err)))
                        /\ UNCHANGED call

(***************************************************************************)
(* Config.Response up to the first doRequest, for a request the access     *)
(* phase let through and the upstream has answered with body upBody.       *)
(***************************************************************************)
ResponseBegin(r, upBody, missingIsError) ==
    /\ UNCHANGED <<peer, lockVars, reqHeaders, reqBody, upHeaders>>
    /\ upRawBody' = [upRawBody EXCEPT ![r] =
                         IF conf.SkipResponsePhase
                            \/ loadPerRequestContext(ctx[r], missingIsError).err
                         THEN @ ELSE upBody]
    /\ httpClientOnce' = IF conf.SkipResponsePhase
                            \/ loadPerRequestContext(ctx[r], missingIsError).err
                         THEN httpClientOnce
                         ELSE getHTTPClient(httpClientOnce, cb, conf).once
    /\ pc[r] = "upstream"
    /\ UNCHANGED <<conf, clockVars, rlUntil, payload, ctx, updated, other, svcHeaders>>
    /\ IF conf.SkipResponsePhase
       THEN /\ pc' = [pc EXCEPT ![r] = "done"]
            /\ UNCHANGED <<cb, phase, rpayload, call, netAttempts, first, last, res, answer>>
       ELSE LET ld == loadPerRequestContext(ctx[r], missingIsError)
                p  == composeResponsePayload(conf, ld.request, ld.state, upBody, upHeaders[r])
                a  == Allow(getHTTPClient(httpClientOnce, cb, conf).cb, now)
            IN  IF ld.err
                   THEN /\ answer' = [answer EXCEPT ![r] = Exit(500, NilBody, NoHeaders)]
                        /\ pc' = [pc EXCEPT ![r] = "done"]
                        /\ UNCHANGED <<cb, phase, rpayload, call, netAttempts, first, last, res>>
                   ELSE /\ phase' = [phase EXCEPT ![r] = "response"]
                        /\ netAttempts' = [netAttempts EXCEPT ![r] = 0]
                        /\ first' = [first EXCEPT ![r] = NoReply]
                        /\ last' = [last EXCEPT ![r] = NoReply]
                        /\ rpayload' = [rpayload EXCEPT ![r] = MarshalResponsePayload(p)]
                        /\ cb' = a.cb
                        /\ IF a.ok
                           THEN /\ call' = [call EXCEPT ![r] = NewCall(p.MCP.Method)]
                                /\ res' = [res EXCEPT ![r] = NoResult]
                                /\ pc' = [pc EXCEPT ![r] = "responseCall"]
                                /\ UNCHANGED answer
                           ELSE /\ EndResponse(r, ld.request,
                                       EvaluateResponse(
                                           Return(0, <<>>, EmptyBody, "cbopen", a.err)))
                                /\ UNCHANGED call

\* the breaker after the trip, if any, that an iteration of Execute asks for
AfterTrip(trip) ==
    IF trip.fire THEN Trip(cb, now, trip.trigger, trip.retryAfterSec) ELSE cb

\* history: the end of the Retry-After window a 429 reply announces, when it
\* lies beyond the windows announced so far
RateLimitedUntil(reply) ==
    IF reply.kind = "http" /\ reply.status = 429
       /\ conf.CircuitBreakerEnabled
       /\ now + parseRetryAfter(reply.retryAfter) * TicksPerSec > rlUntil
    THEN now + parseRetryAfter(reply.retryAfter) * TicksPerSec
    ELSE rlUntil

(***************************************************************************)
(* One doRequest of a running Execute with the provider's reply, and what  *)
(* follows it without another doRequest: a trip, the return, the handling  *)
(* of the result by the orchestrator.                                      *)
(***************************************************************************)
Attempt(r, reply) ==
    /\ UNCHANGED <<instanceVars, lockVars, reqHeaders, reqBody, upHeaders, upRawBody>>
    /\ pc[r] \in {"accessCall", "responseCall"}
    /\ reply \in IF phase[r] = "access" THEN AccessReplies ELSE ResponseReplies
    /\ LET st == Execute(conf, call[r], reply)
       IN  /\ netAttempts' = [netAttempts EXCEPT ![r] = @ + 1]
           /\ first' = [first EXCEPT ![r] = IF netAttempts[r] = 0 THEN reply ELSE @]
           /\ last' = [last EXCEPT ![r] = reply]
           /\ cb' = AfterTrip(st.trip)
           /\ rlUntil' = RateLimitedUntil(reply)
           /\ IF st.done
              THEN /\ call' = [call EXCEPT ![r] = NoCall]
                   /\ IF pc[r] = "accessCall"
                      THEN EndAccess(r, payload[r], EvaluateRequest(st.ret))
                      ELSE EndResponse(r, loadPerRequestContext(ctx[r], FALSE).request,
                                       EvaluateResponse(st.ret))
              ELSE /\ call' = [call EXCEPT ![r] = st.call]
                   /\ UNCHANGED <<pc, ctx, res, answer, updated, svcHeaders>>
    /\ UNCHANGED <<conf, clockVars, phase, payload, rpayload, other>>

(***************************************************************************)
(* The provider call of a concurrent request, followed through Execute     *)
(* only.  A call the breaker rejects returns at once and changes nothing,  *)
(* so it is not a step.                                                    *)
(***************************************************************************)
OtherBegin ==
    /\ UNCHANGED <<peer, lockVars, messageVars>>
    /\ ~other.active
    /\ httpClientOnce' = getHTTPClient(httpClientOnce, cb, conf).once
    /\ Allow(getHTTPClient(httpClientOnce, cb, conf).cb, now).ok
    /\ cb' = Allow(getHTTPClient(httpClientOnce, cb, conf).cb, now).cb
    /\ other' = NewCall("")
    /\ UNCHANGED <<conf, clockVars, rlUntil, pc, phase, payload, rpayload, ctx, call,
                   netAttempts, first, last, res, answer, updated>>

OtherAttempt(reply) ==
    /\ UNCHANGED <<instanceVars, lockVars, messageVars>>
    /\ other.active
    /\ LET st == Execute(conf, other, reply)
       IN  /\ cb' = AfterTrip(st.trip)
           /\ rlUntil' = RateLimitedUntil(reply)
           /\ other' = IF st.done THEN NoCall ELSE st.call
    /\ UNCHANGED <<conf, clockVars, pc, phase, payload, rpayload, ctx, call,
                   netAttempts, first, last, res, answer, updated>>

(***************************************************************************)
(* The request is over; its slot serves the next request.                  *)
(***************************************************************************)
Recycle(r) ==
    /\ UNCHANGED <<instanceVars, lockVars, reqHeaders, upHeaders>>
    /\ reqBody' = [reqBody EXCEPT ![r] = EmptyBody]
    /\ upRawBody' = [upRawBody EXCEPT ![r] = EmptyBody]
    /\ svcHeaders' = [svcHeaders EXCEPT ![r] = LowerKeys(reqHeaders[r])]
    /\ pc[r] = "done"
    /\ pc' = [pc EXCEPT ![r] = "idle"]
    /\ phase' = [phase EXCEPT ![r] = "none"]
    /\ payload' = [payload EXCEPT ![r] = NoPayload]
    /\ rpayload' = [rpayload EXCEPT ![r] = NoResponsePayload]
    /\ ctx' = [ctx EXCEPT ![r] = NoCtx]
    /\ call' = [call EXCEPT ![r] = NoCall]
    /\ netAttempts' = [netAttempts EXCEPT ![r] = 0]
    /\ first' = [first EXCEPT ![r] = NoReply]
    /\ last' = [last EXCEPT ![r] = NoReply]
    /\ res' = [res EXCEPT ![r] = NoResult]
    /\ answer' = [answer EXCEPT ![r] = NoAnswer]
    /\ updated' = [updated EXCEPT ![r] = FALSE]
    /\ UNCHANGED <<conf, clockVars, cb, rlUntil, other>>

(***************************************************************************)
(* A panic inside executeAccess or executeResponse, at the start of the    *)
(* orchestrator or during its provider call, unwinds to the deferred       *)
(* function of Config.Access or Config.Response, which recovers it and     *)
(* answers 500.  Config.Response returns before it runs anything when      *)
(* skip_response_phase is set.                                             *)
(***************************************************************************)
\* Recover letting the request through under fail_open
RecoverFailOpen(r) ==
    /\ UNCHANGED <<instanceVars, lockVars, messageVars>>
    /\ pc[r] = "panic"
    /\ IF conf.FailOpen
       THEN pc' = [pc EXCEPT ![r] = IF phase[r] = "response" THEN "done" ELSE "upstream"]
            /\ UNCHANGED answer
       ELSE /\ answer' = [answer EXCEPT ![r] = Exit(500, NilBody, NoHeaders)]
            /\ pc' = [pc EXCEPT ![r] = "done"]
    /\ UNCHANGED <<conf, clockVars, cb, rlUntil, phase, payload, rpayload, ctx, call,
                   netAttempts, first, last, res, updated, other>>

Panic(r) ==
    /\ UNCHANGED <<instanceVars, lockVars, messageVars>>
    /\ pc[r] \in {"idle", "accessCall", "upstream", "responseCall"}
    /\ pc[r] = "upstream" => ~conf.SkipResponsePhase
    /\ pc' = [pc EXCEPT ![r] = "panic"]
    /\ call' = [call EXCEPT ![r] = NoCall]
    /\ UNCHANGED <<conf, clockVars, cb, rlUntil, phase, payload, rpayload, ctx,
                   netAttempts, first, last, res, answer, updated, other>>

Recover(r) ==
    /\ UNCHANGED <<instanceVars, lockVars, messageVars>>
    /\ pc[r] = "panic"
    /\ answer' = [answer EXCEPT ![r] = Exit(500, NilBody, NoHeaders)]
    /\ pc' = [pc EXCEPT ![r] = "done"]
    /\ UNCHANGED <<conf, clockVars, cb, rlUntil, phase, payload, rpayload, ctx, call,
                   netAttempts, first, last, res, updated, other>>

(***************************************************************************)
(* Time passes.  The clock is read by Trip, which stores it in openedAt,   *)
(* and by Allow on an open breaker, which compares it with openedAt: only  *)
(* the time that passes while the breaker is open is seen by the program,  *)
(* and only that is followed.                                              *)
(***************************************************************************)
Advance(d) ==
    /\ UNCHANGED <<instanceVars, lockVars, messageVars>>
    /\ cb.enabled /\ ~cb.closed
    /\ advances < MaxAdvances
    /\ now' = now + d
    /\ advances' = advances + 1
    /\ UNCHANGED <<conf, cb, rlUntil, pc, phase, payload, rpayload, ctx, call,
                   netAttempts, first, last, res, answer, updated, other>>

Next ==
    \/ \E r \in Requests, body \in RequestBodies, composeOk \in BOOLEAN :
           AccessBegin(r, body, composeOk)
    \/ \E r \in Requests, upBody \in UpstreamBodies, missingIsError \in BOOLEAN :
           ResponseBegin(r, upBody, missingIsError)
    \/ \E r \in Requests, reply \in SpecReplies : Attempt(r, reply)
    \/ \E r \in Requests : Recycle(r)
    \/ \E d \in AdvanceSteps : Advance(d)

\* requests served one after the other
Spec == Init /\ [][Next]_vars

(***************************************************************************)
(* Requests served concurrently: the provider call of another request may  *)
(* run between any two steps.  The followed request is a plain (non-MCP)   *)
(* one and the provider's replies are told apart by status only.           *)
(***************************************************************************)
ConcConfigs == {c \in Configs : ~c.EnableMCP /\ ~c.MCPJsonrpcErrors /\ ~c.SkipResponsePhase}

ConcInit == Init /\ conf \in ConcConfigs

ConcNext ==
    \/ \E r \in Requests, composeOk \in BOOLEAN : AccessBegin(r, EmptyBody, composeOk)
    \/ \E r \in Requests, missingIsError \in BOOLEAN :
           ResponseBegin(r, PlainUpstreamBody, missingIsError)
    \/ \E r \in Requests, reply \in StatusReplies : Attempt(r, reply)
    \/ \E r \in Requests : Recycle(r)
    \/ \E d \in AdvanceSteps : Advance(d)
    \/ OtherBegin
    \/ \E reply \in OtherReplies : OtherAttempt(reply)

ConcSpec == ConcInit /\ [][ConcNext]_vars

(***************************************************************************)
(* Requests served one after the other, with the progress the runtime      *)
(* gives: the goroutine inside Execute keeps running, and doRequest        *)
(* returns, with a reply or with a transport failure, because the HTTP     *)
(* client has connection and read timeouts.  MCP is enabled, so that calls *)
(* with and without the MCP cap occur, and the plugin fails closed; the    *)
(* provider's replies are told apart by status only.                       *)
(***************************************************************************)
FairConfigs ==
    {c \in Configs : /\ c.EnableMCP /\ ~c.MCPJsonrpcErrors /\ ~c.SkipResponsePhase
                     /\ ~c.FailOpen /\ c.PassthroughStatusCodes = <<413>>}

FairInit == Init /\ conf \in FairConfigs

FairNext ==
    \/ \E r \in Requests, body \in RequestBodies, composeOk \in BOOLEAN :
           AccessBegin(r, body, composeOk)
    \/ \E r \in Requests, missingIsError \in BOOLEAN :
           ResponseBegin(r, PlainUpstreamBody, missingIsError)
    \/ \E r \in Requests, reply \in StatusReplies : Attempt(r, reply)
    \/ \E r \in Requests : Recycle(r)
    \/ \E d \in AdvanceSteps : Advance(d)

FairSpec ==
    /\ FairInit /\ [][FairNext]_vars
    /\ \A r \in Requests : WF_vars(\E reply \in StatusReplies : Attempt(r, reply))

(***************************************************************************)
(* Requests served one after the other by an instance that does not retry, *)
(* with provider replies of every status class and access decisions of     *)
(* every shape, and with panics.  The breaker is enabled and no time       *)
(* passes, so that once a failure has tripped it every later call is       *)
(* rejected.                                                               *)
(***************************************************************************)
FlowConfigs ==
    {c \in Configs : /\ c.CircuitBreakerEnabled /\ c.MaxRetries = 0
                     /\ c.PassthroughStatusCodes = <<413>>}

FlowInit == Init /\ conf \in FlowConfigs

FlowNext ==
    \/ \E r \in Requests, body \in RequestBodies, composeOk \in BOOLEAN :
           AccessBegin(r, body, composeOk)
    \/ \E r \in Requests, upBody \in UpstreamBodies, missingIsError \in BOOLEAN :
           ResponseBegin(r, upBody, missingIsError)
    \/ \E r \in Requests, reply \in AllFlowReplies : Attempt(r, reply)
    \/ \E r \in Requests : Recycle(r)
    \/ \E r \in Requests : Panic(r)
    \/ \E r \in Requests : Recover(r)

FlowSpec == FlowInit /\ [][FlowNext]_vars

(***************************************************************************)
(* Requests served one after the other, with the headers of the client's   *)
(* request, of the provider's replies and of the upstream's response.  The *)
(* instance does not retry and its breaker is enabled, so that a failed    *)
(* call makes the breaker reject the call of the next request.             *)
(***************************************************************************)
HeaderInit ==
    /\ conf \in {[c EXCEPT !.StripAcceptEncoding = strip] :
                    c \in {k \in FlowConfigs : ~k.EnableMCP /\ ~k.SkipResponsePhase},
                    strip \in BOOLEAN}
    /\ now = 0
    /\ advances = 0
    /\ cb = NewCircuitBreaker(conf.CircuitBreakerEnabled)
    /\ rlUntil = 0
    /\ pc = [r \in Requests |-> "idle"]
    /\ phase = [r \in Requests |-> "none"]
    /\ payload = [r \in Requests |-> NoPayload]
    /\ rpayload = [r \in Requests |-> NoResponsePayload]
    /\ ctx = [r \in Requests |-> NoCtx]
    /\ call = [r \in Requests |-> NoCall]
    /\ netAttempts = [r \in Requests |-> 0]
    /\ first = [r \in Requests |-> NoReply]
    /\ last = [r \in Requests |-> NoReply]
    /\ res = [r \in Requests |-> NoResult]
    /\ answer = [r \in Requests |-> NoAnswer]
    /\ updated = [r \in Requests |-> FALSE]
    /\ other = NoCall
    /\ mu = ""
    /\ gs = [g \in Goroutines |-> IdleGoroutine]
    /\ lastTrip = NoTripYet
    /\ reqHeaders \in
           [Requests ->
               {NoHeaderMap,
                [n \in {"Accept-Encoding", "x-a"} |->
                     IF n = "x-a" THEN <<"v1">> ELSE <<"gzip">>],
                [n \in {"x-a", "host", "x-b"} |->
                     CASE n = "x-a" -> <<"v1", "v2">> [] n = "host" -> <<"h1">>
                       [] OTHER -> <<"b">>]}]
    /\ svcHeaders = [r \in Requests |-> LowerKeys(reqHeaders[r])]
    /\ reqBody = [r \in Requests |-> EmptyBody]
    /\ upRawBody = [r \in Requests |-> EmptyBody]
    /\ httpClientOnce = NoClientYet
    /\ peer = [httpClientOnce |-> NoClientYet,
               cb |-> NewCircuitBreaker(conf.CircuitBreakerEnabled)]
    /\ upHeaders \in
           [Requests ->
               {NoHeaderMap,
                [n \in {"content-length", "date", "x-up"} |->
                     CASE n = "content-length" -> <<"5">> [] n = "date" -> <<"d">>
                       [] OTHER -> <<"u">>],
                [n \in {"vary", "connection"} |-> <<"c">>]}]

HeaderNext ==
    \/ \E r \in Requests : AccessBegin(r, EmptyBody, TRUE)
    \/ \E r \in Requests : ResponseBegin(r, PlainUpstreamBody, FALSE)
    \/ \E r \in Requests, reply \in HeaderReplies("access") \cup HeaderReplies("response") :
           Attempt(r, reply)
    \/ \E r \in Requests : Recycle(r)

HeaderSpec == HeaderInit /\ [][HeaderNext]_vars

(***************************************************************************)
(* The header codec on its own, as TestRoundTrip drives it: a header map   *)
(* is formatted into the array of single-entry objects and the array is    *)
(* flattened back.  The maps have up to three names, two of which differ   *)
(* only in letter case, each with no value, one value or two values in     *)
(* either order; the range loop of FormatHeaders visits the names in any   *)
(* order.  The array is kept in the headers of the request's message and   *)
(* the flattened map in the headers of the forwarded request.              *)
(***************************************************************************)
RoundTripNames == {"X-New", "x-new", "Host"}

RoundTripValues == {<<>>, <<"a">>, <<"a", "b">>, <<"b", "a">>}

RoundTripInit ==
    /\ conf = CHOOSE c \in Configs : TRUE
    /\ now = 0
    /\ advances = 0
    /\ cb = NewCircuitBreaker(conf.CircuitBreakerEnabled)
    /\ rlUntil = 0
    /\ pc = [r \in Requests |-> "idle"]
    /\ phase = [r \in Requests |-> "none"]
    /\ payload = [r \in Requests |-> NoPayload]
    /\ rpayload = [r \in Requests |-> NoResponsePayload]
    /\ ctx = [r \in Requests |-> NoCtx]
    /\ call = [r \in Requests |-> NoCall]
    /\ netAttempts = [r \in Requests |-> 0]
    /\ first = [r \in Requests |-> NoReply]
    /\ last = [r \in Requests |-> NoReply]
    /\ res = [r \in Requests |-> NoResult]
    /\ answer = [r \in Requests |-> NoAnswer]
    /\ updated = [r \in Requests |-> FALSE]
    /\ other = NoCall
    /\ mu = ""
    /\ gs = [g \in Goroutines |-> IdleGoroutine]
    /\ lastTrip = NoTripYet
    /\ reqHeaders \in
           [Requests -> UNION {[names -> RoundTripValues] : names \in SUBSET RoundTripNames}]
    /\ svcHeaders = [r \in Requests |-> NoHeaderMap]
    /\ upHeaders = [r \in Requests |-> NoHeaderMap]
    /\ reqBody = [r \in Requests |-> EmptyBody]
    /\ upRawBody = [r \in Requests |-> EmptyBody]
    /\ httpClientOnce = NoClientYet
    /\ peer = [httpClientOnce |-> NoClientYet,
               cb |-> NewCircuitBreaker(conf.CircuitBreakerEnabled)]

\* formatted, err := FormatHeaders(original)
CallFormatHeaders(r, order) ==
    /\ pc[r] = "idle"
    /\ order \in IterationOrders(reqHeaders[r])
    /\ pc' = [pc EXCEPT ![r] = "formatted"]
    /\ reqBody' = [reqBody EXCEPT ![r] =
                       WithHeaders(@, FormatHeaders(reqHeaders[r], order), "")]
    /\ UNCHANGED <<conf, clockVars, cb, rlUntil, phase, payload, rpayload, ctx, call,
                   netAttempts, first, last, res, answer, updated, other, lockVars, instanceVars,
                   reqHeaders, svcHeaders, upHeaders, upRawBody>>

\* flattened := FlattenHeaders(formatted)
CallFlattenHeaders(r) ==
    /\ pc[r] = "formatted"
    /\ pc' = [pc EXCEPT ![r] = "flattened"]
    /\ svcHeaders' = [svcHeaders EXCEPT ![r] = FlattenHeaders(reqBody[r].headers)]
    /\ UNCHANGED <<conf, clockVars, cb, rlUntil, phase, payload, rpayload, ctx, call,
                   netAttempts, first, last, res, answer, updated, other, lockVars, instanceVars,
                   reqHeaders, reqBody, upHeaders, upRawBody>>

RoundTripNext ==
    \/ \E r \in Requests : \E order \in IterationOrders(reqHeaders[r]) :
           CallFormatHeaders(r, order)
    \/ \E r \in Requests : CallFlattenHeaders(r)

RoundTripSpec == RoundTripInit /\ [][RoundTripNext]_vars

(***************************************************************************)
(* Upstream responses that are SSE streams.  A stream is a list of events, *)
(* each a data line with one payload followed by an empty line; some have  *)
(* a line of another field, a payload without the data: prefix, a payload  *)
(* right after the prefix, or spaces around the line.  Responses with an   *)
(* id come before, between and after notifications.  The upstream's        *)
(* Content-Type is absent, JSON, or an event stream in three spellings;    *)
(* MCP is enabled and disabled.                                            *)
(***************************************************************************)
DataEvent(data) == <<DataPrefix, Space, data, LF, LF>>

RECURSIVE SseStream(_)
SseStream(payloads) ==
    IF Len(payloads) = 0 THEN <<>>
    ELSE DataEvent(Head(payloads)) \o SseStream(Tail(payloads))

StreamBody(raw) ==
    WithRaw(MkBody("stream", FALSE, "", "", NoId, FALSE, <<>>, NoState), raw)

SseUpstreamBodies ==
    {EmptyBody, PlainUpstreamBody, RpcBody("tools/list")}
    \cup {StreamBody(SseStream(payloads)) :
              payloads \in {<<"{progress}", "{progress}", "{result 5}">>,
                            <<"{result 1}", "{progress}">>,
                            <<"{progress}", "{result 1}", "{progress}", "{result 5}",
                              "{progress}">>,
                            <<"{result 5}", "{result 1}">>,
                            <<"{progress}", "{progress}">>,
                            <<"not json", "not json">>,
                            <<"{result 1}", "{v1 result 1}">>}}
    \cup {StreamBody(<<"event: message", LF>> \o DataEvent("{result 1}")
                     \o <<"event: message", LF, Space, DataPrefix, "{result 5}", Space,
                          LF, LF>>),
          StreamBody(<<"{result 1}", LF, "no data: prefix here", LF>>),
          StreamBody(<<DataPrefix, LF, DataPrefix, Space, Space, LF>>)}

SseContentTypes ==
    {NoHeaderMap}
    \cup {[n \in {name} |-> <<value>>] :
              name \in {"Content-Type", "content-type"},
              value \in {"application/json", "text/event-stream",
                         "text/event-stream; charset=utf-8", " Text/Event-Stream"}}

SseInit ==
    /\ conf \in {c \in FlowConfigs :
                    ~c.SkipResponsePhase /\ ~c.MCPJsonrpcErrors /\ c.FailOpen}
    /\ now = 0
    /\ advances = 0
    /\ cb = NewCircuitBreaker(conf.CircuitBreakerEnabled)
    /\ rlUntil = 0
    /\ pc = [r \in Requests |-> "idle"]
    /\ phase = [r \in Requests |-> "none"]
    /\ payload = [r \in Requests |-> NoPayload]
    /\ rpayload = [r \in Requests |-> NoResponsePayload]
    /\ ctx = [r \in Requests |-> NoCtx]
    /\ call = [r \in Requests |-> NoCall]
    /\ netAttempts = [r \in Requests |-> 0]
    /\ first = [r \in Requests |-> NoReply]
    /\ last = [r \in Requests |-> NoReply]
    /\ res = [r \in Requests |-> NoResult]
    /\ answer = [r \in Requests |-> NoAnswer]
    /\ updated = [r \in Requests |-> FALSE]
    /\ other = NoCall
    /\ mu = ""
    /\ gs = [g \in Goroutines |-> IdleGoroutine]
    /\ lastTrip = NoTripYet
    /\ reqHeaders = [r \in Requests |-> NoHeaderMap]
    /\ svcHeaders = [r \in Requests |-> NoHeaderMap]
    /\ upHeaders \in [Requests -> SseContentTypes]
    /\ reqBody = [r \in Requests |-> EmptyBody]
    /\ upRawBody = [r \in Requests |-> EmptyBody]
    /\ httpClientOnce = NoClientYet
    /\ peer = [httpClientOnce |-> NoClientYet,
               cb |-> NewCircuitBreaker(conf.CircuitBreakerEnabled)]

SseNext ==
    \/ \E r \in Requests, body \in {EmptyBody, RpcBody("tools/call")} :
           AccessBegin(r, body, TRUE)
    \/ \E r \in Requests, upBody \in SseUpstreamBodies : ResponseBegin(r, upBody, FALSE)
    \/ \E r \in Requests,
          reply \in {TransportFailure, HttpReply(200, <<>>, AllowBody(NoState)),
                     HttpReply(200, <<>>, PlainResultBody)} :
           Attempt(r, reply)
    \/ \E r \in Requests : Recycle(r)

SseSpec == SseInit /\ [][SseNext]_vars

(***************************************************************************)
(* The MCP options.  Requests with ids of every kind (no id, a number, a   *)
(* string, and a string with characters that json.Marshal escapes), their  *)
(* bytes spelled out, under every payload size limit: none, one below the  *)
(* size of any payload, one of less than twice the bytes of a JSON-RPC     *)
(* body, one of more, and one that no payload exceeds.                     *)
(* mcp_jsonrpc_errors is also set without enable_mcp.  The provider's      *)
(* error statuses are the first and the last 4xx and the first 5xx, with   *)
(* and without retries.  A 429 comes with a Retry-After of 1 second and    *)
(* without one, and the clock advances by half a second and by one tick    *)
(* less than a second while the breaker is open.                           *)
(***************************************************************************)
McpInit ==
    /\ conf \in {[c EXCEPT !.MCPJsonrpcErrors = j, !.MaxSidebandBodyBytes = m,
                            !.MaxRetries = n] :
                    c \in {k \in FlowConfigs : ~k.SkipResponsePhase /\ ~k.MCPJsonrpcErrors},
                    j \in BOOLEAN, m \in {0, 1, 40, 120, 400}, n \in 0..MaxRetriesBound}
    /\ now = 0
    /\ advances = 0
    /\ cb = NewCircuitBreaker(conf.CircuitBreakerEnabled)
    /\ rlUntil = 0
    /\ pc = [r \in Requests |-> "idle"]
    /\ phase = [r \in Requests |-> "none"]
    /\ payload = [r \in Requests |-> NoPayload]
    /\ rpayload = [r \in Requests |-> NoResponsePayload]
    /\ ctx = [r \in Requests |-> NoCtx]
    /\ call = [r \in Requests |-> NoCall]
    /\ netAttempts = [r \in Requests |-> 0]
    /\ first = [r \in Requests |-> NoReply]
    /\ last = [r \in Requests |-> NoReply]
    /\ res = [r \in Requests |-> NoResult]
    /\ answer = [r \in Requests |-> NoAnswer]
    /\ updated = [r \in Requests |-> FALSE]
    /\ other = NoCall
    /\ mu = ""
    /\ gs = [g \in Goroutines |-> IdleGoroutine]
    /\ lastTrip = NoTripYet
    /\ reqHeaders = [r \in Requests |-> NoHeaderMap]
    /\ svcHeaders = [r \in Requests |-> NoHeaderMap]
    /\ upHeaders = [r \in Requests |-> NoHeaderMap]
    /\ reqBody = [r \in Requests |-> EmptyBody]
    /\ upRawBody = [r \in Requests |-> EmptyBody]
    /\ httpClientOnce = NoClientYet
    /\ peer = [httpClientOnce |-> NoClientYet,
               cb |-> NewCircuitBreaker(conf.CircuitBreakerEnabled)]

McpNext ==
    \/ \E r \in Requests,
          body \in {EmptyBody,
                    WithRaw(MkBody("text", FALSE, "", "", NoId, FALSE, <<>>, NoState),
                            <<"a", "b", "c">>)}
                   \cup {WithRaw(RpcBodyWithId("tools/call", id),
                                 <<"{", "\"", "j", "s", "o", "n", "r", "p", "c", "\"", ":",
                                   "\"", "2", ".", "0", "\"", ",">>
                                 \o (IF id = NoId THEN <<>>
                                     ELSE <<"\"", "i", "d", "\"", ":">> \o id \o <<",">>)
                                 \o <<"\"", "m", "e", "t", "h", "o", "d", "\"", ":",
                                      "\"", "t", "o", "o", "l", "s", "/", "c", "a", "l",
                                      "l", "\"", "}">>) :
                            id \in {NoId, <<"1">>, <<"\"", "a", "\"">>,
                                    <<"\"", "<", "a", ">", "\"">>}} :
           AccessBegin(r, body, TRUE)
    \/ \E r \in Requests : ResponseBegin(r, PlainUpstreamBody, FALSE)
    \/ \E r \in Requests,
          reply \in {TransportFailure, HttpReply(429, <<"1">>, ErrorBody),
                     HttpReply(429, <<>>, ErrorBody)}
                    \cup {HttpReply(s, <<>>, ErrorBody) : s \in {400, 499, 500, 503}}
                    \cup
                    {HttpReply(200, <<>>, DenyBody(<<"4", "0", "3">>)),
                     HttpReply(200, <<>>, DenyBody(<<"x">>)),
                     HttpReply(200, <<>>, AllowBody(NoState)),
                     HttpReply(200, <<>>, PlainResultBody)} :
           Attempt(r, reply)
    \/ \E r \in Requests : Recycle(r)
    \/ \E d \in {TicksPerSec \div 2, TicksPerSec - 1} : Advance(d)

McpSpec == McpInit /\ [][McpNext]_vars

(***************************************************************************)
(* Two requests in flight at once on one plugin instance, each followed    *)
(* through its two phases: every step of one may come between any two      *)
(* steps of the other.  The instance fails open and does not retry; the    *)
(* two requests may carry different bodies and get different decisions.    *)
(***************************************************************************)
PairRequests == {"r1", "r2"}

PairInit ==
    /\ conf \in {c \in FlowConfigs : /\ c.FailOpen /\ c.EnableMCP /\ ~c.MCPJsonrpcErrors
                                     /\ ~c.SkipResponsePhase}
    /\ now = 0
    /\ advances = 0
    /\ cb = NewCircuitBreaker(conf.CircuitBreakerEnabled)
    /\ rlUntil = 0
    /\ pc = [r \in PairRequests |-> "idle"]
    /\ phase = [r \in PairRequests |-> "none"]
    /\ payload = [r \in PairRequests |-> NoPayload]
    /\ rpayload = [r \in PairRequests |-> NoResponsePayload]
    /\ ctx = [r \in PairRequests |-> NoCtx]
    /\ call = [r \in PairRequests |-> NoCall]
    /\ netAttempts = [r \in PairRequests |-> 0]
    /\ first = [r \in PairRequests |-> NoReply]
    /\ last = [r \in PairRequests |-> NoReply]
    /\ res = [r \in PairRequests |-> NoResult]
    /\ answer = [r \in PairRequests |-> NoAnswer]
    /\ updated = [r \in PairRequests |-> FALSE]
    /\ other = NoCall
    /\ mu = ""
    /\ gs = [g \in Goroutines |-> IdleGoroutine]
    /\ lastTrip = NoTripYet
    /\ reqHeaders = [r \in PairRequests |-> NoHeaderMap]
    /\ svcHeaders = [r \in PairRequests |-> NoHeaderMap]
    /\ upHeaders = [r \in PairRequests |-> NoHeaderMap]
    /\ reqBody = [r \in PairRequests |-> EmptyBody]
    /\ upRawBody = [r \in PairRequests |-> EmptyBody]
    /\ httpClientOnce = NoClientYet
    /\ peer = [httpClientOnce |-> NoClientYet,
               cb |-> NewCircuitBreaker(conf.CircuitBreakerEnabled)]

PairNext ==
    \/ \E r \in PairRequests, body \in {EmptyBody, RpcBody("tools/call")} :
           AccessBegin(r, body, TRUE)
    \/ \E r \in PairRequests, missingIsError \in BOOLEAN :
           ResponseBegin(r, PlainUpstreamBody, missingIsError)
    \/ \E r \in PairRequests,
          reply \in {TransportFailure, HttpReply(200, <<>>, PlainResultBody),
                     HttpReply(200, <<>>, AllowBody(NoState)),
                     HttpReply(200, <<>>, AllowBody(CompactState)),
                     HttpReply(200, <<>>, DenyBody(<<"4", "0", "3">>))} :
           Attempt(r, reply)

PairSpec == PairInit /\ [][PairNext]_vars

(***************************************************************************)
(* Two plugin instances, each with its own Config and so its own           *)
(* sync.Once, client and breaker.  The first serves two requests at once;  *)
(* the other makes whole provider calls, each of which gets the same reply *)
(* to all of its attempts.                                                 *)
(***************************************************************************)
PeerCall(reply) ==
    /\ LET h == getHTTPClient(peer.httpClientOnce, peer.cb, conf)
           a == Allow(h.cb, now)
           RECURSIVE run(_)
           run(k) == LET st == Execute(conf, k, reply)
                     IN  IF st.done THEN st ELSE run(st.call)
           st == run(NewCall(""))
       IN  peer' = [httpClientOnce |-> h.once,
                    cb |-> IF a.ok /\ st.trip.fire
                           THEN Trip(a.cb, now, st.trip.trigger, st.trip.retryAfterSec)
                           ELSE a.cb]
    /\ UNCHANGED <<conf, clockVars, cb, rlUntil, pc, phase, payload, rpayload, ctx, call,
                   netAttempts, first, last, res, answer, updated, other, lockVars,
                   messageVars, httpClientOnce>>

InstanceNext ==
    \/ PairNext
    \/ \E reply \in {TransportFailure, HttpReply(200, <<>>, AllowBody(NoState))} :
           PeerCall(reply)

InstanceSpec == PairInit /\ [][InstanceNext]_vars

(***************************************************************************)
(* The breaker alone, its methods run statement by statement by            *)
(* concurrent goroutines: each of Allow, Trip and Reset takes the mutex,   *)
(* runs its statements and releases the mutex on return.  The breaker is   *)
(* enabled, so no method returns before it takes the mutex.                *)
(***************************************************************************)
\* the arguments Execute gives to Trip
TripArgs ==
    {<<Trigger429, 1>>, <<Trigger5xx, defaultRetryAfterSec>>,
     <<TriggerTimeout, defaultRetryAfterSec>>}

MethodCalls ==
    {<<"Allow", TriggerNone, 0>>, <<"Reset", TriggerNone, 0>>}
    \cup {<<"Trip", a[1], a[2]>> : a \in TripArgs}

FirstStatement(op) ==
    CASE op = "Allow" -> "allowClosed"
      [] op = "Trip" -> "tripClosed"
      [] op = "Reset" -> "resetClosed"

\* a goroutine inside method call m: op is the method, pc its next
\* statement, trigger and retryAfterSec the arguments of Trip, elapsed and
\* retryDuration the locals of Allow, ok and err what Allow returns; cb0 is
\* the breaker when the goroutine took the mutex and at the clock value its
\* method read (history)
Enter(g, m) ==
    [op |-> m[1], pc |-> FirstStatement(m[1]), trigger |-> m[2], retryAfterSec |-> m[3],
     elapsed |-> 0, retryDuration |-> 0, ok |-> TRUE, err |-> NoCbErr,
     cb0 |-> cb, at |-> now]

\* Lock that does not wait for the mutex
LockNoWait(g, m) ==
    /\ gs[g].pc = "idle"
    /\ mu' = g
    /\ gs' = [gs EXCEPT ![g] = Enter(g, m)]
    /\ UNCHANGED <<cb, lastTrip, clockVars, requestVars>>

\* cb.mu.Lock() at the head of method call m
Lock(g, m) ==
    /\ gs[g].pc = "idle"
    /\ mu = ""
    /\ mu' = g
    /\ gs' = [gs EXCEPT ![g] = Enter(g, m)]
    /\ UNCHANGED <<cb, lastTrip, clockVars, requestVars>>

\* one statement of Allow
AllowStep(g) ==
    /\ UNCHANGED <<mu, lastTrip, clockVars, requestVars>>
    /\ CASE gs[g].pc = "allowClosed" ->
             /\ gs' = [gs EXCEPT ![g].pc = IF cb.closed THEN "unlock" ELSE "allowElapsed",
                                 ![g].ok = TRUE]
             /\ UNCHANGED cb
         [] gs[g].pc = "allowElapsed" ->
             LET elapsed       == now - cb.openedAt
                 retryDuration == cb.retryAfterSec * TicksPerSec
             IN  /\ gs' = [gs EXCEPT ![g].elapsed = elapsed,
                                     ![g].retryDuration = retryDuration,
                                     ![g].at = now,
                                     ![g].pc = IF elapsed >= retryDuration
                                               THEN "allowClose" ELSE "allowReject"]
                 /\ UNCHANGED cb
         [] gs[g].pc = "allowClose" ->
             /\ cb' = [cb EXCEPT !.closed = TRUE]
             /\ gs' = [gs EXCEPT ![g].pc = "allowClear"]
         [] gs[g].pc = "allowClear" ->
             /\ cb' = [cb EXCEPT !.triggerType = TriggerNone]
             /\ gs' = [gs EXCEPT ![g].pc = "unlock", ![g].ok = TRUE]
         [] gs[g].pc = "allowReject" ->
             /\ gs' = [gs EXCEPT ![g].pc = "unlock",
                                 ![g].ok = FALSE,
                                 ![g].err =
                                     [Trigger       |-> cb.triggerType,
                                      RetryAfterSec |-> cb.retryAfterSec,
                                      RemainingMs   |-> (gs[g].retryDuration - gs[g].elapsed)
                                                            \div TicksPerMs]]
             /\ UNCHANGED cb
         [] OTHER -> FALSE

\* one statement of Trip
TripStep(g) ==
    /\ UNCHANGED <<mu, clockVars, requestVars>>
    /\ CASE gs[g].pc = "tripClosed" ->
             /\ cb' = [cb EXCEPT !.closed = FALSE]
             /\ gs' = [gs EXCEPT ![g].pc = "tripOpenedAt"]
             /\ UNCHANGED lastTrip
         [] gs[g].pc = "tripOpenedAt" ->
             /\ cb' = [cb EXCEPT !.openedAt = now]
             /\ gs' = [gs EXCEPT ![g].pc = "tripTrigger", ![g].at = now]
             /\ UNCHANGED lastTrip
         [] gs[g].pc = "tripTrigger" ->
             /\ cb' = [cb EXCEPT !.triggerType = gs[g].trigger]
             /\ gs' = [gs EXCEPT ![g].pc = "tripRetry"]
             /\ UNCHANGED lastTrip
         [] gs[g].pc = "tripRetry" ->
             LET sec == IF gs[g].retryAfterSec > 0 THEN gs[g].retryAfterSec
                        ELSE defaultRetryAfterSec
             IN  /\ cb' = [cb EXCEPT !.retryAfterSec = sec]
                 /\ gs' = [gs EXCEPT ![g].pc = "unlock"]
                 /\ lastTrip' = [trigger |-> gs[g].trigger, retryAfterSec |-> sec,
                                 openedAt |-> gs[g].at]
         [] OTHER -> FALSE

\* one statement of Reset
ResetStep(g) ==
    /\ UNCHANGED <<mu, lastTrip, clockVars, requestVars>>
    /\ CASE gs[g].pc = "resetClosed" ->
             /\ cb' = [cb EXCEPT !.closed = TRUE]
             /\ gs' = [gs EXCEPT ![g].pc = "resetTrigger"]
         [] gs[g].pc = "resetTrigger" ->
             /\ cb' = [cb EXCEPT !.triggerType = TriggerNone]
             /\ gs' = [gs EXCEPT ![g].pc = "unlock"]
         [] OTHER -> FALSE

\* the deferred cb.mu.Unlock() and the return
Unlock(g) ==
    /\ gs[g].pc = "unlock"
    /\ mu' = ""
    /\ gs' = [gs EXCEPT ![g] = IdleGoroutine]
    /\ UNCHANGED <<cb, lastTrip, clockVars, requestVars>>

BreakerConfigs ==
    {c \in FlowConfigs : ~c.FailOpen /\ ~c.SkipResponsePhase /\ ~c.EnableMCP}

BreakerInit == Init /\ conf \in BreakerConfigs

BreakerNext ==
    \/ \E g \in Goroutines, m \in MethodCalls : Lock(g, m)
    \/ \E g \in Goroutines : AllowStep(g)
    \/ \E g \in Goroutines : TripStep(g)
    \/ \E g \in Goroutines : ResetStep(g)
    \/ \E g \in Goroutines : Unlock(g)
    \/ \E d \in AdvanceSteps : Advance(d)

BreakerSpec == BreakerInit /\ [][BreakerNext]_vars

(***************************************************************************)
(* Vocabulary of the properties.                                           *)
(***************************************************************************)
\* the provider call of request r is inside Execute, past Allow
Calling(r) == pc[r] \in {"accessCall", "responseCall"}

\* this step starts a provider call of request r (it enters Execute)
CallStarts(r) ==
    \/ pc[r] = "idle" /\ phase'[r] = "access"
    \/ pc[r] = "upstream" /\ phase'[r] = "response"

\* this step makes one network attempt of the provider call of request r
Attempts(r) == netAttempts'[r] = netAttempts[r] + 1

\* this step ends the access / response phase of request r after a provider call
AccessEnds(r) ==
    pc[r] \in {"idle", "accessCall"} /\ pc'[r] \in {"upstream", "done"} /\ phase'[r] = "access"

ResponseEnds(r) ==
    pc[r] \in {"upstream", "responseCall"} /\ pc'[r] = "done" /\ phase'[r] = "response"

\* the breaker is OPEN and its retry duration has not elapsed
OpenUnexpired ==
    cb.enabled /\ ~cb.closed /\ now - cb.openedAt < cb.retryAfterSec * TicksPerSec

\* the breaker is OPEN and its retry duration has elapsed
OpenExpired ==
    cb.enabled /\ ~cb.closed /\ now - cb.openedAt >= cb.retryAfterSec * TicksPerSec

\* the provider call of request r was rejected by the breaker
Rejected(r) == res[r].kind = "cbopen"

\* a reply that is a transport failure or a 5xx
IsFailure(reply) ==
    reply.kind = "transport" \/ (reply.kind = "http" /\ reply.status >= 500)

\* the seconds a Retry-After header value stands for: its value if it is a
\* positive integer, 30 otherwise
RetryAfterSeconds(v) ==
    IF v # <<>> /\ (\A i \in 1..Len(v) : IsDigit(v[i])) /\ DigitsVal(v) > 0
    THEN DigitsVal(v)
    ELSE 30

(***************************************************************************)
(* C1: while the breaker is OPEN and its retry duration has not elapsed,   *)
(* every provider call that starts is rejected with a circuit-open error   *)
(* carrying the trigger kind, the retry-after seconds and the remaining    *)
(* milliseconds of the breaker, the breaker is left as it is, and no       *)
(* network attempt is made for a rejected call.                            *)
(***************************************************************************)
C1_OpenRejects ==
    [][\A r \in Requests :
         /\ CallStarts(r) /\ OpenUnexpired =>
               /\ Rejected(r)'
               /\ res'[r].cbErr.Trigger = cb.triggerType
               /\ res'[r].cbErr.RetryAfterSec = cb.retryAfterSec
               /\ res'[r].cbErr.RemainingMs * TicksPerMs
                      <= cb.openedAt + cb.retryAfterSec * TicksPerSec - now
               /\ cb.openedAt + cb.retryAfterSec * TicksPerSec - now
                      < (res'[r].cbErr.RemainingMs + 1) * TicksPerMs
               /\ cb' = cb
         /\ Rejected(r)' => netAttempts'[r] = 0 /\ ~call'[r].active]_vars

\* a call was rejected in the response phase by a breaker that an exhausted
\* call had opened with trigger server_error one second earlier
C1_Witness ==
    /\ Rejected("r1") /\ phase["r1"] = "response"
    /\ res["r1"].cbErr.Trigger = Trigger5xx
    /\ res["r1"].cbErr.RemainingMs = (defaultRetryAfterSec - 1) * MsPerSec
    /\ netAttempts["r1"] = 0

(***************************************************************************)
(* C2: when an attempt returns 429 the call makes no further attempt and   *)
(* the breaker opens with trigger rate_limit for k seconds, k being the    *)
(* Retry-After value if a positive integer and 30 otherwise; and every     *)
(* provider call started within the k seconds that follow a 429 is         *)
(* rejected with a circuit-open error.                                     *)
(***************************************************************************)
C2_RateLimitWindow ==
    [][\A r \in Requests :
         /\ Attempts(r) /\ cb.enabled /\ last'[r].kind = "http" /\ last'[r].status = 429 =>
               /\ ~Calling(r)'
               /\ cb' = [enabled |-> TRUE, closed |-> FALSE, openedAt |-> now,
                         retryAfterSec |-> RetryAfterSeconds(last'[r].retryAfter),
                         triggerType |-> Trigger429]
         /\ CallStarts(r) /\ cb.enabled /\ now < rlUntil => Rejected(r)']_vars

\* the part of C2 about the attempt that returns 429
C2_TripOn429 ==
    [][\A r \in Requests :
         Attempts(r) /\ cb.enabled /\ last'[r].kind = "http" /\ last'[r].status = 429 =>
               /\ ~Calling(r)'
               /\ cb' = [enabled |-> TRUE, closed |-> FALSE, openedAt |-> now,
                         retryAfterSec |-> RetryAfterSeconds(last'[r].retryAfter),
                         triggerType |-> Trigger429]]_vars

CallMethod(r) ==
    IF phase[r] = "access" THEN payload[r].MCP.Method ELSE rpayload[r].MCP.Method

\* the provider call of request r is capped by the MCP rule
Capped(r) ==
    /\ CallMethod(r) # ""
    /\ \A i \in 1..Len(conf.MCPRetryMethods) : conf.MCPRetryMethods[i] # CallMethod(r)

\* the provider call of request r has returned from Execute past Allow
Returned(r) == phase[r] # "none" /\ ~Calling(r) /\ ~Rejected(r)

(***************************************************************************)
(* C4: a provider call that the MCP rule does not cap makes at most        *)
(* 1 + max_retries network attempts; while it runs, every attempt so far   *)
(* was a transport failure or a 5xx (it stops at the first status below    *)
(* 500) and attempts are left; when it has returned after a failure as     *)
(* its last attempt, it has made exactly 1 + max_retries attempts; and a   *)
(* running call always returns.                                            *)
(***************************************************************************)
C4_AttemptLimit ==
    /\ [](\A r \in Requests :
             phase[r] # "none" /\ ~Capped(r) =>
                 /\ netAttempts[r] <= 1 + conf.MaxRetries
                 /\ Calling(r) => netAttempts[r] < 1 + conf.MaxRetries
                 /\ Calling(r) /\ netAttempts[r] > 0 => IsFailure(last[r])
                 /\ Returned(r) /\ IsFailure(last[r]) =>
                        netAttempts[r] = 1 + conf.MaxRetries)
    /\ \A r \in Requests : Calling(r) ~> ~Calling(r)

\* the counting part of C4 as a state predicate, for every configuration
\* and every reply body of Spec
C4_Counts ==
    \A r \in Requests :
        phase[r] # "none" /\ ~Capped(r) =>
            /\ netAttempts[r] <= 1 + conf.MaxRetries
            /\ Calling(r) => netAttempts[r] < 1 + conf.MaxRetries
            /\ Calling(r) /\ netAttempts[r] > 0 => IsFailure(last[r])
            /\ Returned(r) /\ IsFailure(last[r]) => netAttempts[r] = 1 + conf.MaxRetries

\* a call that is not capped has returned after max_retries = 1 failures
\* followed by a reply below 500
C4_Witness ==
    /\ conf.MaxRetries = 1 /\ Returned("r1") /\ ~Capped("r1")
    /\ netAttempts["r1"] = 2 /\ IsFailure(first["r1"])
    /\ last["r1"].kind = "http" /\ last["r1"].status = 200

(***************************************************************************)
(* C5: a provider call for an MCP method that is not in mcp_retry_methods  *)
(* makes exactly one network attempt whatever max_retries is; for an MCP   *)
(* method in mcp_retry_methods the limit is 1 + max_retries, reached when  *)
(* every attempt fails.                                                    *)
(***************************************************************************)
C5_McpRetryCap ==
    \A r \in Requests :
        phase[r] # "none" /\ CallMethod(r) # "" =>
            IF Capped(r)
            THEN /\ netAttempts[r] <= 1
                 /\ Calling(r) => netAttempts[r] = 0
                 /\ Returned(r) => netAttempts[r] = 1
            ELSE /\ netAttempts[r] <= 1 + conf.MaxRetries
                 /\ Returned(r) /\ IsFailure(last[r]) =>
                        netAttempts[r] = 1 + conf.MaxRetries

\* with max_retries = 1 a tools/call has returned after a single attempt,
\* which the provider answered with a 5xx
C5_Witness ==
    /\ conf.MaxRetries = 1 /\ Returned("r1") /\ phase["r1"] = "access"
    /\ CallMethod("r1") = "tools/call"
    /\ netAttempts["r1"] = 1 /\ last["r1"].kind = "http" /\ last["r1"].status = 503

\* with max_retries = 1 a tools/list has returned after two attempts
C5_WitnessRetryable ==
    /\ conf.MaxRetries = 1 /\ Returned("r1") /\ CallMethod("r1") = "tools/list"
    /\ netAttempts["r1"] = 2 /\ IsFailure(last["r1"])

(***************************************************************************)
(* C6: when a provider call has used up its attempts, the breaker (if      *)
(* enabled) opens at that moment for 30 seconds, with trigger server_error *)
(* if the final attempt returned a 5xx and timeout if it failed in         *)
(* transport, whatever the earlier attempts of the call were.              *)
(***************************************************************************)
C6_ExhaustionTrip ==
    [][\A r \in Requests :
         Attempts(r) /\ Calling(r) /\ ~Calling(r)' /\ IsFailure(last'[r]) /\ cb.enabled =>
             cb' = [enabled |-> TRUE, closed |-> FALSE, openedAt |-> now,
                    retryAfterSec |-> 30,
                    triggerType |-> IF last'[r].kind = "transport" THEN TriggerTimeout
                                    ELSE Trigger5xx]]_vars

\* the breaker was opened with trigger timeout by a call whose first attempt
\* returned a 5xx and whose final attempt failed in transport
C6_Witness ==
    /\ Returned("r1") /\ netAttempts["r1"] = 2
    /\ first["r1"].kind = "http" /\ first["r1"].status = 503
    /\ last["r1"].kind = "transport"
    /\ ~cb.closed /\ cb.triggerType = TriggerTimeout /\ cb.retryAfterSec = 30

\* this step ends a phase of request r after a provider call
PhaseEnds(r) == AccessEnds(r) \/ ResponseEnds(r)

\* the value of a Retry-After header is a positive integer
IsPositiveInteger(v) ==
    v # <<>> /\ (\A i \in 1..Len(v) : IsDigit(v[i])) /\ DigitsVal(v) > 0

\* the status is one of the configured passthrough_status_codes
InPassthrough(status) ==
    \E i \in 1..Len(conf.PassthroughStatusCodes) : conf.PassthroughStatusCodes[i] = status

(***************************************************************************)
(* C7: the request whose own provider call receives 429 with a Retry-After *)
(* of k seconds is answered with 429, a Retry-After header of k seconds    *)
(* and the LIMIT_EXCEEDED body (its JSON-RPC form for an MCP request with  *)
(* mcp_jsonrpc_errors), as requests rejected by the open breaker are.      *)
(***************************************************************************)
C7_Own429Answer ==
    [][\A r \in Requests :
         /\ PhaseEnds(r) /\ Attempts(r)
         /\ last'[r].kind = "http" /\ last'[r].status = 429
         /\ IsPositiveInteger(last'[r].retryAfter)
         => /\ pc'[r] = "done"
            /\ answer'[r].status = 429
            /\ answer'[r].headers.retryAfter = RetryAfterSeconds(last'[r].retryAfter)
            /\ answer'[r].body.kind \in {"LIMIT_EXCEEDED", "jsonrpc"}]_vars

(***************************************************************************)
(* C8: a provider call rejected by a breaker that a 429 opened is answered *)
(* with 429 and a Retry-After header holding the remaining time in whole   *)
(* seconds (at least 1), in the access phase and in the response phase,    *)
(* whatever fail_open is: the request is not let through and the upstream  *)
(* response is not passed through.                                         *)
(***************************************************************************)
C8_RateLimitRejection ==
    [][\A r \in Requests :
         PhaseEnds(r) /\ Rejected(r)' /\ res'[r].cbErr.Trigger = Trigger429
         => /\ pc'[r] = "done"
            /\ answer'[r].status = 429
            /\ answer'[r].headers.retryAfter >= 1
            /\ answer'[r].headers.retryAfter * MsPerSec >= res'[r].cbErr.RemainingMs
            /\ \/ answer'[r].headers.retryAfter = 1
               \/ (answer'[r].headers.retryAfter - 1) * MsPerSec < res'[r].cbErr.RemainingMs]_vars

\* with fail_open, a response phase was rejected by the breaker that the 429
\* to the access call of the same request had opened, and answered 429
C8_Witness ==
    /\ conf.FailOpen /\ phase["r1"] = "response" /\ pc["r1"] = "done"
    /\ Rejected("r1") /\ res["r1"].cbErr.Trigger = Trigger429
    /\ answer["r1"].status = 429 /\ answer["r1"].headers.retryAfter = defaultRetryAfterSec

\* the provider call of request r failed, and the failure is neither a
\* rejection by a breaker that a 429 opened nor an HTTP error with a
\* passthrough status
ReliabilityFailure(r) ==
    \/ Rejected(r) /\ res[r].cbErr.Trigger \in {Trigger5xx, TriggerTimeout}
    \/ /\ ~Rejected(r) /\ netAttempts[r] > 0
       /\ \/ last[r].kind = "transport"
          \/ /\ last[r].kind = "http" /\ last[r].status >= 400
             /\ ~InPassthrough(last[r].status)
          \/ last[r].kind = "http" /\ last[r].status < 400 /\ ~last[r].body.valid

C10_Passthrough ==
    [][\A r \in Requests :
         /\ PhaseEnds(r) /\ Attempts(r)
         /\ last'[r].kind = "http" /\ last'[r].status >= 400
         /\ InPassthrough(last'[r].status)
         => /\ pc'[r] = "done"
            /\ answer'[r].status = last'[r].status
            /\ answer'[r].body = RawBody(last'[r].body.text)]_vars

\* C10 for the passthrough statuses below 500
C10_PassthroughBelow500 ==
    [][\A r \in Requests :
         /\ PhaseEnds(r) /\ Attempts(r)
         /\ last'[r].kind = "http" /\ last'[r].status >= 400 /\ last'[r].status < 500
         /\ InPassthrough(last'[r].status)
         => /\ pc'[r] = "done"
            /\ answer'[r].status = last'[r].status
            /\ answer'[r].body = RawBody(last'[r].body.text)]_vars

(***************************************************************************)
(* C11: a phase whose provider call ends with a 5xx reply whose status is  *)
(* in passthrough_status_codes answers with that status and the provider's *)
(* body, not with 502 and not by letting the request or the upstream       *)
(* response through.                                                       *)
(***************************************************************************)
C11_Passthrough5xx ==
    [][\A r \in Requests :
         /\ PhaseEnds(r) /\ Attempts(r)
         /\ last'[r].kind = "http" /\ last'[r].status >= 500 /\ last'[r].status <= 599
         /\ InPassthrough(last'[r].status)
         => /\ pc'[r] = "done"
            /\ answer'[r].status = last'[r].status
            /\ answer'[r].body = RawBody(last'[r].body.text)]_vars

(***************************************************************************)
(* C12: with fail_open, a phase whose provider call ends with a 4xx reply  *)
(* whose status is not in passthrough_status_codes answers 502: the        *)
(* request is not let through.                                             *)
(***************************************************************************)
C12_FailOpenBlocks4xx ==
    [][\A r \in Requests :
         /\ PhaseEnds(r) /\ Attempts(r) /\ conf.FailOpen
         /\ last'[r].kind = "http" /\ last'[r].status >= 400 /\ last'[r].status < 500
         /\ ~InPassthrough(last'[r].status)
         => pc'[r] = "done" /\ answer'[r].status = 502]_vars

(***************************************************************************)
(* C13: when a provider call has returned with an HTTP reply, the provider *)
(* client hands the orchestrator a typed HTTP error with the status and    *)
(* the raw body of the reply if the status is not 2xx, and parses the      *)
(* reply as a decision only if the status is 2xx.                          *)
(***************************************************************************)
C13_TypedHttpError ==
    \A r \in Requests :
        Returned(r) /\ netAttempts[r] > 0 /\ last[r].kind = "http" =>
            IF last[r].status >= 200 /\ last[r].status <= 299
            THEN res[r].kind \in {"ok", "error"}
            ELSE /\ res[r].kind = "httperr"
                 /\ res[r].StatusCode = last[r].status
                 /\ res[r].Body = last[r].body

\* C13 for the replies with a 4xx status
C13_TypedHttpError4xx ==
    \A r \in Requests :
        /\ Returned(r) /\ netAttempts[r] > 0 /\ last[r].kind = "http"
        /\ last[r].status >= 400 /\ last[r].status <= 499
        => /\ res[r].kind = "httperr"
           /\ res[r].StatusCode = last[r].status
           /\ res[r].Body = last[r].body

\* the status a deny decision asks for: its response_code, 403 if that is
\* not a number
DenyStatus(body) ==
    IF Atoi(body.response_code).ok THEN Atoi(body.response_code).val ELSE 403

\* this step ends the access phase of request r with a reply that the
\* provider client parsed as a decision
DecisionArrives(r) == AccessEnds(r) /\ Attempts(r) /\ res'[r].kind = "ok"

\* the deny answer is wrapped as a JSON-RPC error for request r
WrapsDeny(r) == conf.MCPJsonrpcErrors /\ payload[r].MCP.present

ResponsePayloadSent(r) == phase[r] = "response"

\* this step starts the response phase of request r with a provider call
ResponseCallStarts(r) == pc[r] = "upstream" /\ phase'[r] = "response"

(***************************************************************************)
(* C15: every response-phase payload sent to the provider has exactly one  *)
(* of state and request: state if the access phase stored a state for the  *)
(* request, otherwise request, and that is the access payload of the       *)
(* request.                                                                *)
(***************************************************************************)
C15_StateOrRequest ==
    \A r \in Requests :
        ResponsePayloadSent(r) =>
            /\ rpayload[r].hasState # rpayload[r].hasRequest
            /\ rpayload[r].hasState = (Len(ctx[r].state) > 0)
            /\ rpayload[r].hasRequest => rpayload[r].Request = payload[r]

\* C15 without what it says of the contents of request
C15_ExactlyOne ==
    \A r \in Requests :
        ResponsePayloadSent(r) =>
            /\ rpayload[r].hasState # rpayload[r].hasRequest
            /\ rpayload[r].hasState = (Len(ctx[r].state) > 0)

\* C15 for the requests whose access phase stored the per-request context
C15_StateOrRequestStored ==
    \A r \in Requests :
        ResponsePayloadSent(r) /\ ctx[r].hasOriginal =>
            /\ rpayload[r].hasState # rpayload[r].hasRequest
            /\ rpayload[r].hasState = (Len(ctx[r].state) > 0)
            /\ rpayload[r].hasRequest => rpayload[r].Request = payload[r]

(***************************************************************************)
(* C16: the state of the provider's allow decision is the state of the     *)
(* response-phase payload sent for the same request, byte for byte, and    *)
(* the request of a response-phase payload that has one is the access      *)
(* payload composed for the same request.                                  *)
(***************************************************************************)
C16_StateRoundTrip ==
    [][\A r \in Requests :
         ResponseCallStarts(r) =>
             /\ res[r].kind = "ok" /\ Len(res[r].Body.state) > 0
                    => rpayload'[r].hasState /\ rpayload'[r].State = res[r].Body.state
             /\ rpayload'[r].hasRequest => rpayload'[r].Request = payload[r]]_vars

\* C16 with the state compared after compaction, for the requests whose
\* access phase stored the per-request context
C16_StateRoundTripCompacted ==
    [][\A r \in Requests :
         ResponseCallStarts(r) /\ ctx[r].hasOriginal =>
             /\ res[r].kind = "ok" /\ Len(res[r].Body.state) > 0
                    => /\ rpayload'[r].hasState
                       /\ rpayload'[r].State = appendCompact(res[r].Body.state)
             /\ rpayload'[r].hasRequest => rpayload'[r].Request = payload[r]]_vars

\* C16 for the states that are compact already
C16_CompactStateRoundTrip ==
    [][\A r \in Requests :
         /\ ResponseCallStarts(r) /\ res[r].kind = "ok"
         /\ Len(res[r].Body.state) > 0
         /\ res[r].Body.state = appendCompact(res[r].Body.state)
         => rpayload'[r].hasState /\ rpayload'[r].State = res[r].Body.state]_vars

(***************************************************************************)
(* C17: a request that the access phase let through to the upstream has    *)
(* its original_request slot written, whether it was let through by an     *)
(* allow decision, by fail-open after a provider failure or by fail-open   *)
(* after a rejection by the open breaker.                                  *)
(***************************************************************************)
C17_ContextWritten ==
    \A r \in Requests : pc[r] = "upstream" => ctx[r].hasOriginal

\* C17 for the requests let through after a provider call
C17_ContextWrittenAfterCall ==
    \A r \in Requests :
        pc[r] = "upstream" /\ res[r].kind # "cbopen" => ctx[r].hasOriginal

\* the reply that ends the access phase of request r in this step has been
\* parsed as an allow decision
AllowParsed(r) == Attempts(r) /\ res'[r].kind = "ok" /\ ~res'[r].Body.hasResponse

(***************************************************************************)
(* C18: within one request updateRequest is called in the step that ends   *)
(* the access phase, exactly when the reply of the provider has been       *)
(* parsed as an allow decision: not on a deny, a provider failure, a       *)
(* rejection by the breaker or a fail-open, and in no other step.          *)
(***************************************************************************)
C18_MutationsAfterAllow ==
    [][\A r \in Requests :
         /\ AccessEnds(r) => (updated'[r] <=> AllowParsed(r))
         /\ AccessEnds(r) /\ updated'[r] => pc'[r] = "upstream"
         /\ ~AccessEnds(r) => (updated'[r] => updated[r])]_vars

\* a request has gone to the upstream after an allow decision and
\* updateRequest
C18_Witness ==
    /\ pc["r1"] = "upstream" /\ res["r1"].kind = "ok" /\ ~res["r1"].Body.hasResponse
    /\ updated["r1"]

(***************************************************************************)
(* C19: a panic inside the access or the response orchestrator is          *)
(* recovered by the phase entry point: the request is answered with 500    *)
(* and no body, and does not go on to the upstream or to the client with   *)
(* the upstream's response, whatever fail_open is.                         *)
(***************************************************************************)
C19_PanicRecovered ==
    [][\A r \in Requests :
         pc[r] = "panic" /\ pc'[r] # "panic" =>
             pc'[r] = "done" /\ answer'[r] = Exit(500, NilBody, NoHeaders)]_vars

\* with fail_open, a panic during the access call has been answered with 500
C19_Witness ==
    /\ conf.FailOpen /\ pc["r1"] = "done" /\ phase["r1"] = "access"
    /\ res["r1"].kind = "none" /\ answer["r1"] = Exit(500, NilBody, NoHeaders)

\* goroutine g has run its method to the end and is about to release the mutex
Finished(g) == gs[g].pc = "unlock"

\* the method goroutine g has finished had the effect and the result of the
\* method run as one step on the breaker as it was when g took the mutex
TookEffectAtomically(g) ==
    CASE gs[g].op = "Allow" ->
             /\ gs[g].ok = Allow(gs[g].cb0, gs[g].at).ok
             /\ ~gs[g].ok => gs[g].err = Allow(gs[g].cb0, gs[g].at).err
             /\ cb = Allow(gs[g].cb0, gs[g].at).cb
      [] gs[g].op = "Trip" ->
             cb = Trip(gs[g].cb0, gs[g].at, gs[g].trigger, gs[g].retryAfterSec)
      [] gs[g].op = "Reset" -> cb = Reset(gs[g].cb0)
      [] OTHER -> FALSE

\* the rejection goroutine g got reports the trigger, the retry-after and
\* the remaining time of the latest trip
FromOneTrip(g) ==
    /\ gs[g].err.Trigger = lastTrip.trigger
    /\ gs[g].err.RetryAfterSec = lastTrip.retryAfterSec
    /\ gs[g].err.RemainingMs =
           (lastTrip.retryAfterSec * TicksPerSec - (gs[g].at - lastTrip.openedAt))
               \div TicksPerMs

(***************************************************************************)
(* C20: whatever the interleaving of the goroutines that call Allow, Trip  *)
(* and Reset on one breaker, each call takes effect as one step, and a     *)
(* rejection reports the trigger, the retry-after and the remaining time   *)
(* of one and the same trip, with 0 < remaining_ms and remaining_ms at     *)
(* most retry_after_seconds * 1000.                                        *)
(***************************************************************************)
C20_AtomicBreaker ==
    \A g \in Goroutines :
        Finished(g) =>
            /\ TookEffectAtomically(g)
            /\ ~gs[g].ok =>
                   /\ FromOneTrip(g)
                   /\ 0 < gs[g].err.RemainingMs
                   /\ gs[g].err.RemainingMs <= gs[g].err.RetryAfterSec * MsPerSec

(***************************************************************************)
(* C20 amended: as C20, with 0 <= remaining_ms: the remaining time is      *)
(* positive and is reported in whole milliseconds, rounded down.           *)
(***************************************************************************)
C20_AtomicBreakerWholeMs ==
    \A g \in Goroutines :
        Finished(g) =>
            /\ TookEffectAtomically(g)
            /\ ~gs[g].ok =>
                   /\ FromOneTrip(g)
                   /\ gs[g].retryDuration - gs[g].elapsed > 0
                   /\ 0 <= gs[g].err.RemainingMs
                   /\ gs[g].err.RemainingMs <= gs[g].err.RetryAfterSec * MsPerSec

\* a goroutine has been rejected in the last millisecond of the retry
\* duration of a trip made by a 429, while the other goroutine waits to trip
C20_Witness ==
    /\ Finished("g1") /\ gs["g1"].op = "Allow" /\ ~gs["g1"].ok
    /\ gs["g1"].err.Trigger = Trigger429 /\ gs["g1"].err.RemainingMs = 0
    /\ gs["g2"].pc = "idle"

\* the variables of request q: its position, its payloads, its context
\* slots, its provider call and what came of it
Slots(q) ==
    <<pc[q], phase[q], payload[q], rpayload[q], ctx[q], call[q], netAttempts[q],
      first[q], last[q], res[q], answer[q], updated[q]>>

\* this step is a step of request r
Acts(r) == Slots(r)' # Slots(r)

(***************************************************************************)
(* C21: with two requests in flight at once, a step of one request leaves  *)
(* every variable of the other as it is and changes nothing of the         *)
(* instance but the breaker; the context slots of a request are written    *)
(* only at the end of its own access phase, with its own access payload    *)
(* and the state of the decision it got; its response phase sends what its *)
(* own slots hold; and the decision applied to it is the one carried by    *)
(* the reply to its own provider call.                                     *)
(***************************************************************************)
C21_RequestIsolation ==
    [][\A r \in PairRequests :
         /\ Acts(r) =>
               /\ \A q \in PairRequests \ {r} : ~Acts(q)
               /\ UNCHANGED <<conf, other>>
         /\ ctx'[r] # ctx[r] =>
               /\ AccessEnds(r)
               /\ ctx'[r].original_request = payload'[r]
               /\ ctx'[r].mcp_context = payload'[r].MCP
               /\ ctx'[r].state = IF res'[r].kind = "ok" THEN res'[r].Body.state
                                  ELSE NoState
         /\ ResponseCallStarts(r) =>
               /\ rpayload'[r].State = appendCompact(ctx[r].state)
               /\ rpayload'[r].hasRequest =>
                      rpayload'[r].Request =
                          IF ctx[r].hasOriginal THEN ctx[r].original_request ELSE NoPayload
         /\ AccessEnds(r) /\ Attempts(r) /\ res'[r].kind = "ok" =>
               /\ res'[r].Body = last'[r].body
               /\ pc'[r] = IF last'[r].body.hasResponse THEN "done" ELSE "upstream"]_vars

\* both requests are in their response-phase provider call; the first sent
\* the state of its own decision, the second, which carries another body and
\* got a decision without state, sent its own access payload
C21_Witness ==
    /\ pc["r1"] = "responseCall" /\ pc["r2"] = "responseCall"
    /\ payload["r1"] # payload["r2"]
    /\ rpayload["r1"].hasState /\ rpayload["r1"].State = CompactState
    /\ rpayload["r2"].hasRequest /\ rpayload["r2"].Request = payload["r2"]
    /\ ctx["r1"].original_request = payload["r1"]

\* the response phase of request r has ended with a result of the provider
ResultApplied(r) == pc[r] = "done" /\ phase[r] = "response" /\ res[r].kind = "ok"

\* the status a response-phase result asks for: its response_code, 200 if
\* that is not a number
ResultStatus(body) ==
    IF Atoi(body.response_code).ok THEN Atoi(body.response_code).val ELSE 200

(***************************************************************************)
(* C22: after a response-phase result of the provider the response to the  *)
(* client has the provider's status, body and headers, and every one of    *)
(* content-length, date, connection and vary that the upstream's response  *)
(* had is among its headers, in the provider's header set or not.          *)
(***************************************************************************)
C22_PreservedHeaders ==
    \A r \in Requests :
        ResultApplied(r) =>
            /\ answer[r].status = ResultStatus(res[r].Body)
            /\ answer[r].body = RawBody(res[r].Body.text)
            /\ answer[r].headers = ProviderHeaders
            /\ \A n \in preservedResponseHeaders \cap DOMAIN LowerKeys(upHeaders[r]) :
                   n \in DOMAIN policyHeaders(res[r].Body)

\* the part of C22 about the provider's status, body and headers
C22_ProviderResponse ==
    \A r \in Requests :
        ResultApplied(r) =>
            /\ answer[r].status = ResultStatus(res[r].Body)
            /\ answer[r].body = RawBody(res[r].Body.text)
            /\ answer[r].headers = ProviderHeaders

\* this step applies an allow decision to request r
AllowApplied(r) == AccessEnds(r) /\ updated'[r]

\* the headers of the client's request r, under lowercased names
CurrentFlat(r) == LowerKeys(reqHeaders[r])

\* the header set of the provider's reply that this step handles for r
NewFlat(r) == FlattenHeaders(res'[r].Body.headers)

\* the url of the reply that this step handles for r names another host
HostChanges(r) == res'[r].Body.urlHost # "" /\ res'[r].Body.urlHost # CurrentHost

C24_NoAcceptEncoding ==
    \A r \in Requests :
        conf.StripAcceptEncoding /\ pc[r] = "upstream" =>
            "accept-encoding" \notin DOMAIN svcHeaders[r]

\* C24, the allow path alone: a request that an allow decision let through
\* with strip_accept_encoding has no Accept-Encoding header
C24_AllowStrips ==
    \A r \in Requests :
        conf.StripAcceptEncoding /\ pc[r] = "upstream" /\ updated[r] =>
            "accept-encoding" \notin DOMAIN svcHeaders[r]

\* this step answers a deny decision for the MCP request r as a JSON-RPC error
DenyWrapped(r) ==
    /\ AccessEnds(r) /\ res'[r].kind = "ok" /\ res'[r].Body.hasResponse
    /\ conf.MCPJsonrpcErrors /\ payload[r].MCP.present

\* the bytes of the id of the client's request r, null if it has none
RequestIdBytes(r) ==
    IF Len(payload[r].MCP.JsonrpcID) = 0 THEN <<"n", "u", "l", "l">>
    ELSE payload[r].MCP.JsonrpcID

(***************************************************************************)
(* C25: with mcp_jsonrpc_errors, a deny decision for an MCP request is     *)
(* answered with the provider's status, Content-Type application/json and  *)
(* a JSON-RPC error whose id is, byte for byte, the id of the client's     *)
(* request (null if it had none), whose code is the mapped code of the     *)
(* status and whose message is the provider's deny body; the provider's    *)
(* headers are not sent.                                                   *)
(***************************************************************************)
C25_DenyAsJsonRpc ==
    [][\A r \in Requests :
         DenyWrapped(r) =>
             LET code == Atoi(res'[r].Body.response_code)
             IN  /\ answer'[r].status = IF code.ok THEN code.val ELSE 403
                 /\ answer'[r].headers = JsonHeaders
                 /\ answer'[r].body.kind = "jsonrpc"
                 /\ answer'[r].body.id = RequestIdBytes(r)
                 /\ answer'[r].body.code = httpStatusToJsonRPCError(answer'[r].status)
                 /\ answer'[r].body.text = res'[r].Body.text]_vars

\* C25 for the requests whose id has none of the characters <, > and &
C25_DenyAsJsonRpcPlainId ==
    [][\A r \in Requests :
         /\ DenyWrapped(r)
         /\ \A i \in 1..Len(payload[r].MCP.JsonrpcID) :
                payload[r].MCP.JsonrpcID[i] \notin {"<", ">", "&"}
         => LET code == Atoi(res'[r].Body.response_code)
            IN  /\ answer'[r].status = IF code.ok THEN code.val ELSE 403
                /\ answer'[r].headers = JsonHeaders
                /\ answer'[r].body.kind = "jsonrpc"
                /\ answer'[r].body.id = RequestIdBytes(r)
                /\ answer'[r].body.code = httpStatusToJsonRPCError(answer'[r].status)
                /\ answer'[r].body.text = res'[r].Body.text]_vars

\* request r, detected as MCP under mcp_jsonrpc_errors, has been answered
\* with an error of the plugin's own after a provider failure of the kinds given
McpErrorAnswered(r, kinds) ==
    /\ pc[r] = "done" /\ conf.MCPJsonrpcErrors /\ payload[r].MCP.present
    /\ res[r].kind \in kinds /\ answer[r].status \in {502, 429}

(***************************************************************************)
(* C26: with mcp_jsonrpc_errors and a request detected as MCP, every error *)
(* answer of the plugin for a provider failure (502 after a provider or    *)
(* transport failure, 502 or 429 after a circuit-open rejection) has a     *)
(* JSON-RPC error body with the id of the request; a 502 with an empty     *)
(* body goes only to non-MCP requests or without mcp_jsonrpc_errors.       *)
(***************************************************************************)
C26_ErrorsAsJsonRpc ==
    \A r \in Requests :
        McpErrorAnswered(r, {"error", "httperr", "cbopen"}) =>
            /\ answer[r].body.kind = "jsonrpc"
            /\ answer[r].body.id = MarshalID(payload[r].MCP.JsonrpcID)

\* C26 for the circuit-open rejections alone
C26_RejectionsAsJsonRpc ==
    \A r \in Requests :
        McpErrorAnswered(r, {"cbopen"}) =>
            /\ answer[r].body.kind = "jsonrpc"
            /\ answer[r].body.id = MarshalID(payload[r].MCP.JsonrpcID)

\* this step composes the access payload of request r
AccessComposes(r) == pc[r] = "idle" /\ phase'[r] = "access"

\* in this step request r gets what version 2.0.0 gives it: the payload it
\* composes, the call it starts, and the answer, the stored context and the
\* mutation of the request when its access phase ends
SameAsV200(r) ==
    LET p200 == composeAccessPayloadV200(conf, reqBody'[r])
        o200 == executeAccessV200(conf, p200, res'[r])
    IN  /\ AccessComposes(r) =>
               /\ payload'[r] = p200
               /\ pc'[r] = "accessCall" => call'[r] = NewCall("")
        /\ AccessEnds(r) =>
               /\ answer'[r] = o200.answer
               /\ updated'[r] = o200.updated
               /\ pc'[r] = IF o200.exit THEN "done" ELSE "upstream"
               /\ ctx'[r] = IF o200.stored THEN storePerRequestContext(p200, o200.state)
                            ELSE ctx[r]

(***************************************************************************)
(* C27: with enable_mcp = false the plugin does for every request and      *)
(* every provider reply what version 2.0.0 does (payload sent, attempts,   *)
(* client answer, upstream mutation), whatever the other MCP options are.  *)
(***************************************************************************)
C27_SameAsV200 ==
    [][\A r \in Requests : ~conf.EnableMCP => SameAsV200(r)]_vars

\* C27 for the configurations without a payload size limit
C27_SameAsV200WithoutLimit ==
    [][\A r \in Requests :
         ~conf.EnableMCP /\ conf.MaxSidebandBodyBytes = 0 => SameAsV200(r)]_vars

\* the access payload of request r before the size limit is applied
WholePayload(r) ==
    Payload(reqBody'[r], IF conf.EnableMCP THEN ParseMCPRequest(reqBody'[r]) ELSE NoMCP)

\* body is the first n bytes of whole followed by a truncation marker
IsTruncatedTo(body, whole, n) ==
    /\ Len(body.raw) >= n + 5
    /\ SubSeq(body.raw, 1, n) = SubSeq(whole.raw, 1, n)
    /\ SubSeq(body.raw, n + 1, n + 5) = <<".", ".", ".", " ", "[">>

(***************************************************************************)
(* C28: when max_sideband_body_bytes > 0 and the serialized access payload *)
(* exceeds it, the body sent to the provider is the first max/2 bytes of   *)
(* the original body followed by a truncation marker, and the MCP context  *)
(* is that of the untruncated body; a payload that does not exceed the     *)
(* limit is sent unmodified.                                               *)
(***************************************************************************)
C28_BodyTruncated ==
    [][\A r \in Requests :
         AccessComposes(r) /\ conf.MaxSidebandBodyBytes > 0 =>
             IF payloadBytes(WholePayload(r)) > conf.MaxSidebandBodyBytes
             THEN /\ IsTruncatedTo(payload'[r].Body, reqBody'[r],
                                   conf.MaxSidebandBodyBytes \div 2)
                  /\ payload'[r].MCP = WholePayload(r).MCP
             ELSE payload'[r] = WholePayload(r)]_vars

\* C28 as the code has it: the body is cut only if it is longer than max/2
\* and max/2 is not 0; otherwise the payload goes out whole, over the limit
C28_LongerBodyTruncated ==
    [][\A r \in Requests :
         AccessComposes(r) /\ conf.MaxSidebandBodyBytes > 0 =>
             IF /\ payloadBytes(WholePayload(r)) > conf.MaxSidebandBodyBytes
                /\ conf.MaxSidebandBodyBytes \div 2 > 0
                /\ Len(reqBody'[r].raw) > conf.MaxSidebandBodyBytes \div 2
             THEN /\ IsTruncatedTo(payload'[r].Body, reqBody'[r],
                                   conf.MaxSidebandBodyBytes \div 2)
                  /\ payload'[r].MCP = WholePayload(r).MCP
             ELSE payload'[r] = WholePayload(r)]_vars

\* a 46-byte MCP request went out under the limit 40: 20 bytes of it and the
\* marker, with the MCP context of the whole body
C28_TruncatedSent ==
    /\ pc["r1"] = "accessCall" /\ conf.MaxSidebandBodyBytes = 40
    /\ Len(reqBody["r1"].raw) = 46
    /\ IsTruncatedTo(payload["r1"].Body, reqBody["r1"], 20)
    /\ payload["r1"].MCP.present

\* the provider answers this step's attempt of request r with a 4xx other than 429
ClientErrorReply(r) ==
    /\ Attempts(r) /\ last'[r].kind = "http"
    /\ last'[r].status \in (400..499) \ {429}

(***************************************************************************)
(* C29: a provider reply with a status from 400 to 499 other than 429 ends *)
(* the call with that attempt: no attempt follows it, and the circuit      *)
(* breaker is as it was.                                                   *)
(***************************************************************************)
C29_ClientErrorEndsCall ==
    [][\A r \in Requests :
         ClientErrorReply(r) =>
             /\ call'[r] = NoCall
             /\ pc'[r] \notin {"accessCall", "responseCall"}
             /\ res'[r].kind = "httperr" /\ res'[r].StatusCode = last'[r].status
             /\ cb' = cb]_vars

\* with a retry to spare, the provider has answered the only attempt of a
\* request with 499: the call is over and the breaker closed
C29_Witness ==
    /\ conf.MaxRetries >= 1 /\ ~payload["r1"].MCP.present
    /\ phase["r1"] = "access" /\ pc["r1"] = "done" /\ netAttempts["r1"] = 1
    /\ last["r1"].kind = "http" /\ last["r1"].status = 499
    /\ call["r1"] = NoCall /\ cb.closed

(***************************************************************************)
(* C30: with circuit_breaker_enabled = false the breaker never rejects a   *)
(* call and no trip changes its state, after any sequence of 429 replies,  *)
(* exhausted 5xx retries and transport failures.                           *)
(***************************************************************************)
C30_DisabledBreaker ==
    ~conf.CircuitBreakerEnabled =>
        /\ cb = NewCircuitBreaker(FALSE)
        /\ Allow(cb, now).ok
        /\ \A r \in Requests : ~Rejected(r)

\* with the breaker disabled, the provider has answered a call with 429
C30_RateLimitedWitness ==
    /\ ~conf.CircuitBreakerEnabled
    /\ pc["r1"] = "done" /\ last["r1"].kind = "http" /\ last["r1"].status = 429
    /\ cb = NewCircuitBreaker(FALSE)

\* with the breaker disabled, a call has ended after its retries were
\* exhausted on a 5xx or a transport failure
C30_Witness ==
    /\ ~conf.CircuitBreakerEnabled /\ conf.MaxRetries >= 1
    /\ pc["r1"] = "done" /\ netAttempts["r1"] = conf.MaxRetries + 1
    /\ res["r1"].kind \in {"error", "httperr"}
    /\ cb = NewCircuitBreaker(FALSE)

\* request r has been answered after a circuit-open rejection whose trigger
\* is a 429 of the provider
RateLimitRejected(r) ==
    pc[r] = "done" /\ res[r].kind = "cbopen" /\ res[r].cbErr.Trigger = Trigger429

\* the least integer that is at least ms / 1000
CeilSeconds(ms) == IF ms % 1000 = 0 THEN ms \div 1000 ELSE (ms \div 1000) + 1

(***************************************************************************)
(* C31: in every 429 answer for a circuit-open rejection with the rate     *)
(* limit trigger, the Retry-After value N is ceil(remaining_ms / 1000),    *)
(* and 1 if that is less, and 1 <= N <= the retry duration in seconds of   *)
(* the trip.                                                               *)
(***************************************************************************)
C31_RetryAfterValue ==
    \A r \in Requests :
        RateLimitRejected(r) =>
            LET N == answer[r].headers.retryAfter
                c == CeilSeconds(res[r].cbErr.RemainingMs)
            IN  /\ answer[r].status = 429
                /\ N = IF c < 1 THEN 1 ELSE c
                /\ 1 <= N /\ N <= res[r].cbErr.RetryAfterSec

\* half a second into a window of 30 seconds a call was rejected with
\* 29500 ms remaining and answered with Retry-After: 30
C31_Witness ==
    /\ RateLimitRejected("r1")
    /\ res["r1"].cbErr.RemainingMs = 29500
    /\ answer["r1"].status = 429 /\ answer["r1"].headers.retryAfter = 30

\* in the last millisecond of a window of 1 second a call was rejected with
\* 0 ms remaining and answered with Retry-After: 1
C31_MinimumWitness ==
    /\ RateLimitRejected("r1")
    /\ res["r1"].cbErr.RemainingMs = 0
    /\ answer["r1"].status = 429 /\ answer["r1"].headers.retryAfter = 1

\* request r's header map has gone through FormatHeaders and FlattenHeaders
RoundTripDone(r) == pc[r] = "flattened"

(***************************************************************************)
(* C32: for every header map m, FlattenHeaders(FormatHeaders(m)) is m with *)
(* its keys lowercased and the order of the values within each key         *)
(* preserved: it has exactly the lowercased names of m, and under each     *)
(* the list of values m has under that name.  This is stated for any m,    *)
(* also one with a key that has no values and one with keys that differ    *)
(* only in letter case.                                                    *)
(***************************************************************************)
C32_RoundTrip ==
    \A r \in Requests :
        RoundTripDone(r) =>
            /\ DOMAIN svcHeaders[r] = {ToLower(k) : k \in DOMAIN reqHeaders[r]}
            /\ \A k \in DOMAIN reqHeaders[r] :
                   /\ ToLower(k) \in DOMAIN svcHeaders[r]
                   /\ svcHeaders[r][ToLower(k)] = reqHeaders[r][k]

\* the maps for which the round trip gives the map back: every key has a
\* value and no two keys differ only in letter case
C32_RoundTripOfDistinctNonEmpty ==
    \A r \in Requests :
        (/\ RoundTripDone(r)
         /\ \A k \in DOMAIN reqHeaders[r] : Len(reqHeaders[r][k]) > 0
         /\ \A k, l \in DOMAIN reqHeaders[r] : ToLower(k) = ToLower(l) => k = l) =>
            /\ DOMAIN svcHeaders[r] = {ToLower(k) : k \in DOMAIN reqHeaders[r]}
            /\ \A k \in DOMAIN reqHeaders[r] : svcHeaders[r][ToLower(k)] = reqHeaders[r][k]

\* the values of a name with two values came back in their order
C32_RoundTripWitness ==
    /\ RoundTripDone("r1")
    /\ DOMAIN reqHeaders["r1"] = {"X-New", "Host"}
    /\ reqHeaders["r1"]["X-New"] = <<"b", "a">>
    /\ svcHeaders["r1"]["x-new"] = <<"b", "a">>
    /\ svcHeaders["r1"]["host"] = <<"a">>

\* a name without values is absent after the round trip
C32_EmptyListLost ==
    /\ RoundTripDone("r1")
    /\ DOMAIN reqHeaders["r1"] = {"Host"}
    /\ reqHeaders["r1"]["Host"] = <<>>
    /\ DOMAIN svcHeaders["r1"] = {}

\* the values of two names that differ in letter case are joined, in the
\* order in which the range loop visited the two names
C32_CaseVariantsJoined ==
    /\ RoundTripDone("r1")
    /\ DOMAIN reqHeaders["r1"] = {"X-New", "x-new"}
    /\ reqHeaders["r1"]["X-New"] = <<"a">>
    /\ reqHeaders["r1"]["x-new"] = <<"b", "a">>
    /\ svcHeaders["r1"]["x-new"] = <<"b", "a", "a">>

\* the payloads of the stream's data events that are JSON-RPC 2.0 messages
\* with an id, in the order of the stream
ResponseEvents(raw) ==
    LET IsData(i) ==
            \E j \in 1..(i - 1) :
                raw[j] = DataPrefix /\ \A k \in (j + 1)..(i - 1) : raw[k] = Space
        events[i \in 0..Len(raw)] ==
            IF i = 0 THEN <<>>
            ELSE IF raw[i] \in {"{result 1}", "{result 5}"} /\ IsData(i)
                 THEN Append(events[i - 1], raw[i])
                 ELSE events[i - 1]
    IN  events[Len(raw)]

\* the upstream's Content-Type begins with text/event-stream
UpstreamIsSSE(r) ==
    \E name \in DOMAIN upHeaders[r] :
        /\ name \in {"Content-Type", "content-type"}
        /\ upHeaders[r][name][1] \in {"text/event-stream",
                                      "text/event-stream; charset=utf-8",
                                      " Text/Event-Stream"}

(***************************************************************************)
(* C33: with MCP enabled and an upstream Content-Type that begins with     *)
(* text/event-stream, the body sent to the provider is the payload of the  *)
(* last data event of the stream that is a JSON-RPC 2.0 message with an    *)
(* id, whatever notifications come before or after it; when the stream has *)
(* no such event, the content type is not SSE, or the body is empty, the   *)
(* body is sent unchanged.                                                 *)
(***************************************************************************)
C33_SseFinalMessage ==
    [][\A r \in Requests :
          ResponseCallStarts(r) =>
              LET body   == upRawBody'[r]
                  events == ResponseEvents(body.raw)
              IN  IF conf.EnableMCP /\ UpstreamIsSSE(r) /\ Len(events) > 0
                  THEN /\ rpayload'[r].Body.raw = <<events[Len(events)]>>
                       /\ rpayload'[r].Body.valid
                       /\ rpayload'[r].Body.jsonrpc = "2.0"
                       /\ Len(rpayload'[r].Body.id) > 0
                  ELSE rpayload'[r].Body = body]_vars

\* a stream whose only response comes first and is followed by a
\* notification: the response is what the provider is sent
C33_Witness ==
    /\ pc["r1"] = "responseCall"
    /\ conf.EnableMCP /\ UpstreamIsSSE("r1")
    /\ upRawBody["r1"].raw = SseStream(<<"{result 1}", "{progress}">>)
    /\ rpayload["r1"].Body.raw = <<"{result 1}">>

\* a stream of notifications only is sent as it is
C33_UnchangedWitness ==
    /\ pc["r1"] = "responseCall"
    /\ conf.EnableMCP /\ UpstreamIsSSE("r1")
    /\ upRawBody["r1"].raw = SseStream(<<"{progress}", "{progress}">>)
    /\ rpayload["r1"].Body = upRawBody["r1"]

\* this step is a retry of request r's provider call: an attempt after the
\* first one of the call
Retries(r) == Attempts(r) /\ netAttempts[r] >= 1

(***************************************************************************)
(* C34: under concurrent provider calls on one plugin instance no network  *)
(* attempt starts while the breaker is OPEN and unexpired; in particular,  *)
(* once one call has tripped the breaker, a call that is already inside    *)
(* its retry loop makes no further attempt.                                *)
(***************************************************************************)
C34_NoRetryWhileOpen ==
    [][\A r \in Requests : Retries(r) => ~OpenUnexpired]_vars

\* a call retried while the breaker was open, one transport failure after
\* the other, and tripped it anew when its retries were exhausted
C34_RetriedWhileOpen ==
    /\ pc["r1"] \in {"upstream", "done"}
    /\ netAttempts["r1"] >= 2
    /\ ~cb.closed /\ cb.triggerType = TriggerTimeout
    /\ rlUntil > now

(***************************************************************************)
(* C35: once a 429 with Retry-After: k has opened the breaker, trips from  *)
(* other calls that finish later change neither the open window nor its    *)
(* rate_limit trigger: every call started within k seconds of the 429 is   *)
(* rejected with trigger rate_limit, also when a concurrent call exhausts  *)
(* its retries in the meantime.                                            *)
(***************************************************************************)
C35_RateLimitTripKept ==
    [][\A r \in Requests :
          CallStarts(r) /\ cb.enabled /\ now < rlUntil =>
              /\ Rejected(r)'
              /\ res'[r].cbErr.Trigger = Trigger429]_vars

\* within the window of a 429 the breaker is open with another trigger: a
\* call that was under way when the 429 arrived has exhausted its retries
C35_TriggerReplaced ==
    /\ cb.enabled /\ now < rlUntil
    /\ ~cb.closed /\ cb.triggerType \in {Trigger5xx, TriggerTimeout}
    /\ pc["r1"] = "upstream"

\* this step leaves the request of r as the plugin's earlier steps left it:
\* no request mutation and no context slot written
RequestUntouched(r) ==
    /\ ctx'[r] = ctx[r]
    /\ updated'[r] = updated[r]
    /\ svcHeaders'[r] = svcHeaders[r]

\* this step emits a client answer for request r
Emits(r) == answer'[r] # NoAnswer /\ answer'[r] # answer[r]

(***************************************************************************)
(* C36: each phase invocation ends in exactly one outcome, a client answer *)
(* emitted by the plugin or the request or response left to continue.  An  *)
(* answer is emitted only by the step that ends the phase and only when no *)
(* answer has been emitted; the access phase ends answered or continuing,  *)
(* never both; the step that emits an answer in the access phase, and      *)
(* every step after it, applies no request mutation and writes no context  *)
(* slot.                                                                   *)
(***************************************************************************)
C36_OneOutcome ==
    [][\A r \in Requests :
          /\ Emits(r) => answer[r] = NoAnswer /\ pc[r] # "done" /\ pc'[r] = "done"
          /\ pc[r] \in {"idle", "accessCall"} /\ pc'[r] \in {"upstream", "done"} =>
                 IF pc'[r] = "done"
                 THEN answer'[r] # NoAnswer /\ RequestUntouched(r)
                 ELSE answer'[r] = NoAnswer
          /\ pc[r] \in {"upstream", "responseCall"} /\ pc'[r] = "done" =>
                 RequestUntouched(r)
          /\ pc[r] = "panic" /\ pc'[r] # "panic" =>
                 pc'[r] = "done" /\ Emits(r) /\ RequestUntouched(r)
          /\ pc[r] = "done" =>
                 \/ pc'[r] = "done" /\ answer'[r] = answer[r] /\ RequestUntouched(r)
                 \/ pc'[r] = "idle" /\ answer'[r] = NoAnswer]_vars

\* the access phase has answered a deny: nothing stored, nothing mutated
C36_Witness ==
    /\ pc["r1"] = "done" /\ phase["r1"] = "access"
    /\ res["r1"].kind = "ok" /\ res["r1"].Body.hasResponse
    /\ answer["r1"] # NoAnswer
    /\ ctx["r1"] = NoCtx /\ ~updated["r1"]

\* the response phase has let the upstream's response continue
C36_ContinueWitness ==
    /\ pc["r1"] = "done" /\ phase["r1"] = "response"
    /\ answer["r1"] = NoAnswer
    /\ ctx["r1"].hasOriginal

\* a panic during the response-phase call was answered, once
C36_PanicWitness ==
    /\ pc["r1"] = "done" /\ phase["r1"] = "response"
    /\ res["r1"] = NoResult
    /\ answer["r1"] = Exit(500, NilBody, NoHeaders)

\* the breaker of the other plugin instance is OPEN and unexpired
PeerOpenUnexpired ==
    /\ peer.cb.enabled /\ ~peer.cb.closed
    /\ now - peer.cb.openedAt < peer.cb.retryAfterSec * TicksPerSec

(***************************************************************************)
(* C37: a plugin instance has exactly one breaker, made once and shared by *)
(* the access and response phases of all its requests.  Each instance      *)
(* makes at most one client; a provider call of either phase of any        *)
(* request is rejected exactly when the instance's breaker is OPEN and     *)
(* unexpired, whichever request and phase tripped it; a step of a request  *)
(* leaves the other instance as it is, and a call on the other instance    *)
(* leaves this instance's breaker as it is.                                *)
(***************************************************************************)
C37_OneBreakerPerInstance ==
    /\ [](httpClientOnce.created <= 1 /\ peer.httpClientOnce.created <= 1)
    /\ [][/\ \A r \in PairRequests :
                /\ CallStarts(r) => (Rejected(r)' <=> OpenUnexpired)
                /\ CallStarts(r) => httpClientOnce'.done
                /\ pc'[r] # pc[r] => peer' = peer
          /\ peer' # peer => cb' = cb /\ httpClientOnce' = httpClientOnce
          /\ cb' # cb => peer' = peer]_vars

\* the first request's access-phase call tripped the breaker and the second
\* request's response-phase call was rejected, while the other instance has
\* made a call and its breaker is CLOSED
C37_Witness ==
    /\ res["r1"].kind = "error" /\ phase["r1"] = "access"
    /\ phase["r2"] = "response" /\ Rejected("r2")
    /\ ~cb.closed /\ httpClientOnce.created = 1
    /\ peer.httpClientOnce.created = 1 /\ peer.cb.closed

\* the other instance's breaker is OPEN and a request of this instance was
\* admitted and answered by the provider
C37_PeerTrippedWitness ==
    /\ PeerOpenUnexpired
    /\ cb.closed
    /\ res["r1"].kind = "ok" /\ pc["r1"] = "upstream"

\* the first request's access-phase call tripped the breaker and the second
\* request's access-phase call was rejected
C37_AccessRejectedWitness ==
    /\ res["r1"].kind = "error" /\ phase["r1"] = "access"
    /\ phase["r2"] = "access" /\ Rejected("r2")
    /\ httpClientOnce.created = 1

\* the access phase of request r detected MCP traffic with a method that is
\* not in mcp_retry_methods
DetectedNonRetryable(r) ==
    /\ payload[r].MCP.present
    /\ ~isMCPMethodRetryable(payload[r].MCP.Method, conf.MCPRetryMethods)

(***************************************************************************)
(* C38: for a request detected as MCP in the access phase with method m,   *)
(* the response-phase provider call of that request carries an mcp context *)
(* with the same method m, and its retry limit is that of m: if m is not   *)
(* in mcp_retry_methods, the response-phase call makes one attempt and no  *)
(* more.                                                                   *)
(***************************************************************************)
C38_SameMethodInResponse ==
    [][\A r \in Requests :
          /\ ResponseCallStarts(r) /\ payload[r].MCP.present =>
                 /\ rpayload'[r].MCP.present
                 /\ rpayload'[r].MCP.Method = payload[r].MCP.Method
          /\ phase[r] = "response" /\ DetectedNonRetryable(r) /\ Attempts(r) =>
                 netAttempts[r] = 0 /\ ~Calling(r)']_vars

\* the part of C38 for requests whose context slots were written at the end
\* of the access phase and whose upstream response is not itself an MCP
\* request
C38_SameMethodWhenStored ==
    [][\A r \in Requests :
          /\ (/\ ResponseCallStarts(r) /\ payload[r].MCP.present
              /\ ctx[r].hasOriginal
              /\ ~ParseMCPRequest(rpayload'[r].Body).present) =>
                 /\ rpayload'[r].MCP.present
                 /\ rpayload'[r].MCP.Method = payload[r].MCP.Method
          /\ (/\ phase[r] = "response" /\ DetectedNonRetryable(r) /\ Attempts(r)
              /\ rpayload[r].MCP = payload[r].MCP) =>
                 netAttempts[r] = 0 /\ ~Calling(r)']_vars

\* a tools/call request whose response-phase call was retried
C38_RetriedWitness ==
    /\ phase["r1"] = "response" /\ DetectedNonRetryable("r1")
    /\ netAttempts["r1"] >= 2

\* a tools/call request whose response-phase call made its one attempt, a
\* failure, and ended
C38_SingleAttemptWitness ==
    /\ phase["r1"] = "response" /\ DetectedNonRetryable("r1")
    /\ rpayload["r1"].MCP = payload["r1"].MCP
    /\ conf.MaxRetries >= 1
    /\ pc["r1"] = "done" /\ netAttempts["r1"] = 1 /\ IsFailure(last["r1"])

\* a tools/call request that passed the access phase on an open breaker
\* under fail_open, and whose response-phase call carries no mcp context
C38_ContextLostWitness ==
    /\ phase["r1"] = "response" /\ DetectedNonRetryable("r1")
    /\ ~ctx["r1"].hasOriginal
    /\ ~rpayload["r1"].MCP.present
    /\ netAttempts["r1"] >= 1

(***************************************************************************)
(* C39: the breaker starts CLOSED, and in every state in which no method   *)
(* holds its mutex it is CLOSED exactly when its trigger kind is none and, *)
(* whenever it is OPEN, its retry-after is at least 1 second.              *)
(***************************************************************************)
C39_BreakerShape ==
    /\ cb.closed
    /\ [](mu = "" =>
             /\ cb.closed <=> cb.triggerType = TriggerNone
             /\ ~cb.closed => cb.retryAfterSec >= 1)

\* the breaker OPEN after a trip
C39_Witness ==
    /\ mu = "" /\ cb.enabled /\ ~cb.closed
    /\ cb.triggerType # TriggerNone /\ cb.retryAfterSec >= 1

\* the breaker OPEN for the default time after a 429 whose Retry-After
\* header is absent, 0 or not a number
C39_DefaultWitness ==
    /\ ~cb.closed /\ cb.triggerType = Trigger429
    /\ cb.retryAfterSec = defaultRetryAfterSec
    /\ \E r \in Requests : res[r].kind = "http" /\ res[r].StatusCode = 429

\* the breaker CLOSED again by Allow once the retry time of a trip is over
C39_ReclosedWitness ==
    /\ cb.enabled /\ cb.closed /\ cb.triggerType = TriggerNone
    /\ cb.retryAfterSec >= 1

====
